---- MODULE Spec2Model ----
(***************************************************************************)
(* A model of the view-graph pose-resolution engine of multiview_calib     *)
(* (calibration.py): verify_view_tree, build_view_graph,                   *)
(* sample_random_view_tree and the work-list loop of                       *)
(* concatenate_relative_poses.                                             *)
(*                                                                         *)
(* Views are opaque identifiers: the code only compares them.  The trees   *)
(* that are enumerated name the views in the order of their first          *)
(* appearance (0, 1, 2, ...), which covers every edge list over NViews     *)
(* views up to a renaming of the views.                                    *)
(***************************************************************************)
EXTENDS Integers, Sequences, FiniteSets, TLC

NViews == 4
MaxEdges == 3

Views == 0 .. (NViews - 1)
Pairs == Views \X Views

Max2(a, b) == IF a >= b THEN a ELSE b

(* Python's None; every tuple-valued field uses the empty tuple for it. *)
None == << >>

ViewsOfPair(p) == {p[1], p[2]}
ViewsOf(tree) == UNION {ViewsOfPair(tree[i]) : i \in DOMAIN tree}
EdgeSet(tree) == {tree[i] : i \in DOMAIN tree}

MaxView(tree) == IF tree = << >> THEN -1
                 ELSE CHOOSE m \in ViewsOf(tree) : \A v \in ViewsOf(tree) : v <= m

(* The edge lists of n directed pairs, views named by first appearance. *)
RECURSIVE TreesOfLen(_)
TreesOfLen(n) ==
  IF n = 0 THEN {<< >>}
  ELSE UNION { { Append(t, p) : p \in { q \in Pairs :
                     /\ q[1] <= MaxView(t) + 1
                     /\ q[2] <= Max2(MaxView(t), q[1]) + 1 } }
               : t \in TreesOfLen(n - 1) }

Trees == UNION { TreesOfLen(n) : n \in 1 .. MaxEdges }

(* Every list of at most MaxEdges directed pairs, the empty list included. *)
EdgeLists == UNION { [ 1 .. n -> Pairs ] : n \in 0 .. MaxEdges }

(* The rig of the view graph, and the threshold of line 322. *)
NGraphViews == 3
GraphViews == 0 .. (NGraphViews - 1)
MinCommonPoints == 8

Range(seq) == { seq[i] : i \in DOMAIN seq }
Interval(lo, hi) == [ i \in 1 .. (hi - lo + 1) |-> lo + i - 1 ]

RECURSIVE Perms(_)
Perms(S) == IF S = {} THEN {<< >>}
            ELSE UNION { { << x >> \o p : p \in Perms(S \ {x}) } : x \in S }

-----------------------------------------------------------------------------
(* Exact rationals <<num, den>> in lowest terms, den > 0; NaN and Inf are  *)
(* the floating-point results of 0/0 and x/0.                              *)
RECURSIVE GCD(_, _)
GCD(a, b) == IF b = 0 THEN a ELSE GCD(b, a % b)

Abs(n) == IF n < 0 THEN 0 - n ELSE n

Rat(n, d) == LET g == GCD(Abs(n), d) IN << n \div g, d \div g >>
RatMul(x, y) == Rat(x[1] * y[1], x[2] * y[2])
RatDiv(x, y) == Rat(x[1] * y[2], x[2] * y[1])
RatLess(x, y) == x[1] * y[2] < y[1] * x[2]
One == << 1, 1 >>
Zero == << 0, 1 >>
NaN == << 0, 0 >>
Inf == << 1, 0 >>

RatAdd(x, y) == Rat(x[1] * y[2] + y[1] * x[2], x[2] * y[2])
RatSub(x, y) == Rat(x[1] * y[2] - y[1] * x[2], x[2] * y[2])
RatAbs(x) == << Abs(x[1]), x[2] >>

(* floating-point arithmetic on the values that occur: NaN is contagious,  *)
(* and every comparison with NaN is false                                  *)
Mul(x, y) == IF x = NaN \/ y = NaN THEN NaN ELSE RatMul(x, y)
Sub(x, y) == IF x = NaN \/ y = NaN THEN NaN ELSE RatSub(x, y)
Div(x, y) ==
  IF x = NaN \/ y = NaN THEN NaN
  ELSE IF y = Zero THEN (IF x = Zero THEN NaN ELSE Inf)
  ELSE RatDiv(x, << Abs(y[1]), y[2] >>)
Less(x, y) == x # NaN /\ y # NaN /\ x # Inf /\ (y = Inf \/ RatLess(x, y))

RECURSIVE Sum(_)
Sum(seq) == IF seq = << >> THEN Zero ELSE RatAdd(Head(seq), Sum(Tail(seq)))

Mean(seq) == RatDiv(Sum(seq), << Len(seq), 1 >>)

(* the square root: a rational when the argument is the square of one,     *)
(* otherwise the argument marked with the exponent it stands under         *)
IsSquare(n) == \E a \in 0 .. n : a * a = n
IntSqrt(n) == CHOOSE a \in 0 .. n : a * a = n
Sqrt(x) ==
  IF IsSquare(x[1]) /\ IsSquare(x[2]) THEN << IntSqrt(x[1]), IntSqrt(x[2]) >>
  ELSE << x[1], x[2], 2 >>

-----------------------------------------------------------------------------
VARIABLES
  pc,               \* position in the running function
  minimal_tree,     \* argument: the list of directed pairs
  relative_poses,   \* argument: pair -> RelativePose
  method,           \* argument: the scale-estimation method name
  poses,            \* view -> GlobalPose (the keys are the placed views)
  triang_points,    \* pair -> global points, in insertion order
  pairs,            \* the work-list of the current pass
  unmatched_pairs,  \* the pairs kept for the next pass
  idx,              \* position of the for loop in pairs
  passes,           \* number of passes over the work-list started so far
  outcome,          \* "running", "returned" or the error raised
  error_pairs,      \* the pairs named by the stuck error
  is_valid,         \* the verdict of verify_view_tree on minimal_tree
  views,            \* argument: the list of views of the rig
  view0,            \* argument: the root view
  landmarks,        \* argument: view -> list of timestamps (landmark ids)
  G,                \* the view graph, with the edge data n_points and weight
  T,                \* the spanning tree: its edges in insertion order
  warnings,         \* the pairs the low-scale warning was printed for
  max_paths,        \* argument: the cap on the alternate paths of a pair
  notices,          \* the pairs the no-other-way notice was printed for
  registration      \* the point sets given to the scale estimators, and
                    \* what the estimators gave back

concat_vars == << relative_poses, method, poses, triang_points, pairs,
                  unmatched_pairs, idx, passes, outcome, error_pairs,
                  warnings >>
graph_vars == << views, view0, landmarks, G, T >>
robust_vars == << max_paths, notices >>

vars == << pc, minimal_tree, relative_poses, method, poses, triang_points,
           pairs, unmatched_pairs, idx, passes, outcome, error_pairs,
           is_valid, views, view0, landmarks, G, T, warnings, max_paths,
           notices, registration >>

Methods == {"procrustes", "cross-ratios", "median"}

(* The correspondence ids of a pair's triangulated points. *)
TimestampChoices == { {1, 2}, {2, 3} }
(* The length unit of a pair's triangulation (td has unit norm, so every   *)
(* pair is reconstructed at a scale of its own).                           *)
SizeChoices == { One }

RelativePoseChoices ==
  [ timestamps : TimestampChoices, size : SizeChoices ]

(* The relative poses of a second family of inputs: every pair has the    *)
(* default triangulation but one, whose points are reconstructed at        *)
(* another length unit (a baseline 10 or 11 times as long, or 11 times as  *)
(* short), or all coincide, or have other correspondence ids.              *)
DefaultPose == [ timestamps |-> {1, 2}, size |-> One ]
ScaledPoseChoices ==
  { DefaultPose,
    [ timestamps |-> {1, 2}, size |-> << 1, 10 >> ],
    [ timestamps |-> {1, 2}, size |-> << 1, 11 >> ],
    [ timestamps |-> {1, 2}, size |-> << 11, 1 >> ],
    [ timestamps |-> {1, 2}, size |-> << 0, 1 >> ],
    [ timestamps |-> {2, 3}, size |-> << 1, 1 >> ],
    [ timestamps |-> {3, 4}, size |-> << 1, 1 >> ] }

-----------------------------------------------------------------------------
(* A rotation is the word of the relative rotations multiplied, leftmost   *)
(* factor first; a translation is the list of its summands                 *)
(* rot * (s * td).                                                         *)
Factor(pair, inverse) == [ pair |-> pair, inverse |-> inverse ]

eye == << >>
zeros == << >>

Dot(Rd, R1) == << Rd >> \o R1
(* the summand of the relative translation, its scale left out *)
Scaled_unit(s, td) == << [ rot |-> << >>, s |-> One, td |-> td ] >>

DotVec(Rd, t1) == [ k \in DOMAIN t1 |-> [ t1[k] EXCEPT !.rot = << Rd >> \o @ ] ]
Scaled(s, td) == << [ rot |-> << >>, s |-> s, td |-> td ] >>

KeysOf(tp) == { tp[k].key : k \in DOMAIN tp }
Entry(tp, key) == tp[CHOOSE k \in DOMAIN tp : tp[k].key = key]

(* dict assignment: a new key is appended, an existing key keeps its place *)
DictSet(tp, entry) ==
  IF entry.key \in KeysOf(tp)
  THEN [ k \in DOMAIN tp |-> IF tp[k].key = entry.key THEN entry ELSE tp[k] ]
  ELSE Append(tp, entry)

RECURSIVE find_adjacent_scan(_, _, _, _)
find_adjacent_scan(pair, tp, k, adj) ==
  IF k > Len(tp) THEN [ adj_pair |-> adj, inverse |-> FALSE ]
  ELSE IF pair[1] \in ViewsOfPair(tp[k].key)
       THEN find_adjacent_scan(pair, tp, k + 1, tp[k].key)
  ELSE IF pair[2] \in ViewsOfPair(tp[k].key)
       THEN [ adj_pair |-> tp[k].key, inverse |-> TRUE ]
  ELSE find_adjacent_scan(pair, tp, k + 1, adj)

(* the scan without its second test: only pairs holding pair[0] match *)
find_adjacent_pair_forward(pair, tp) ==
  LET S == { k \in DOMAIN tp : pair[1] \in ViewsOfPair(tp[k].key) }
  IN [ adj_pair |-> IF S = {} THEN None
                    ELSE tp[CHOOSE k \in S : \A j \in S : j <= k].key,
       inverse |-> FALSE ]

(* the scan stopping at the first pair that holds either view *)
find_adjacent_pair_first(pair, tp) ==
  LET S == { k \in DOMAIN tp : ViewsOfPair(pair) \cap ViewsOfPair(tp[k].key) # {} }
      k == CHOOSE i \in S : \A j \in S : i <= j
  IN IF S = {} THEN [ adj_pair |-> None, inverse |-> FALSE ]
     ELSE [ adj_pair |-> tp[k].key,
            inverse |-> pair[1] \notin ViewsOfPair(tp[k].key) ]

find_adjacent_pair(pair, tp) == find_adjacent_scan(pair, tp, 1, None)

(* Point sets: the points of a triangulation lie on one line, a point is  *)
(* its coordinate along the line.  The point of correspondence id i of a   *)
(* triangulation of unit length size is at size * i; size 0 is a           *)
(* triangulation whose points all coincide.                                *)
SortedIds(ids) ==
  [ k \in 1 .. Cardinality(ids) |->
      CHOOSE i \in ids : Cardinality({ j \in ids : j < i }) = k - 1 ]

PointsOf(ids, size) ==
  LET sorted == SortedIds(ids)
  IN [ k \in DOMAIN sorted |-> Mul(size, << sorted[k], 1 >>) ]

max_est == 50000

(* itertools.combinations of n indices, two at a time, in its order *)
RECURSIVE idx_pairs_from(_, _)
idx_pairs_from(i, n) ==
  IF i >= n THEN << >>
  ELSE [ j \in 1 .. (n - i) |-> << i, i + j >> ] \o idx_pairs_from(i + 1, n)

idx_pairs(n) == idx_pairs_from(1, n)

(* d2/d1 for every pair of points (lines 24-27) *)
cross_ratios(src, dst) ==
  LET index == idx_pairs(Len(src))
  IN [ k \in DOMAIN index |->
         Div(RatAbs(Sub(dst[index[k][1]], dst[index[k][2]])),
             RatAbs(Sub(src[index[k][1]], src[index[k][2]]))) ]

IsClean(x) == x # NaN /\ x # Inf /\ RatLess(x, << max_est, 1 >>)

median(seq) ==
  IF seq = << >> THEN NaN
  ELSE IF \A k \in DOMAIN seq : seq[k] = seq[1] THEN seq[1]
  ELSE LET sorted == SortSeq(seq, RatLess)
           n == Len(seq)
       IN IF n % 2 = 1 THEN sorted[(n + 1) \div 2]
          ELSE Mean(<< sorted[n \div 2], sorted[n \div 2 + 1] >>)

std(seq) ==
  IF seq = << >> THEN NaN
  ELSE IF \A k \in DOMAIN seq : seq[k] = seq[1] THEN Zero
  ELSE LET mean == Mean(seq)
           squares == [ k \in DOMAIN seq |->
                          RatMul(RatSub(seq[k], mean), RatSub(seq[k], mean)) ]
       IN Sqrt(Mean(squares))

(* the estimator giving NaN, and not raising, on fewer than two points *)
estimate_scale_point_sets_nan(src, dst) ==
  LET scales_clean == SelectSeq(cross_ratios(src, dst), IsClean)
  IN [ raised |-> FALSE, scale |-> median(scales_clean),
       std |-> std(scales_clean) ]

(* estimate_scale_point_sets: with fewer than two points there is no pair  *)
(* of indices and the column lookup of line 25 raises; the median and the  *)
(* spread of no clean ratio are NaN.                                       *)
estimate_scale_point_sets(src, dst) ==
  IF Len(src) < 2
  THEN [ raised |-> TRUE, scale |-> None, std |-> None ]
  ELSE LET scales == cross_ratios(src, dst)
           scales_clean == SelectSeq(scales, IsClean)
       IN [ raised |-> FALSE, scale |-> median(scales_clean),
            std |-> std(scales_clean) ]

Centred(P) == LET m == Mean(P) IN [ k \in DOMAIN P |-> RatSub(P[k], m) ]
Dot1(P, Q) == Sum([ k \in DOMAIN P |-> RatMul(P[k], Q[k]) ])

(* procrustes_registration: raises on no point (the shape lookup of line   *)
(* 53) and when a centred set has norm 0 (line 68).  On one line the       *)
(* singular value is |Q.P| / (norm1 norm2), so that                        *)
(* scale = |Q.P| / norm1^2, and the rotation keeps (1) or reverses (-1)    *)
(* the direction of the line.                                              *)
procrustes_registration(src, dst) ==
  IF Len(src) = 0
  THEN [ raised |-> TRUE, scale |-> None, R |-> None, t |-> None ]
  ELSE IF \E k \in DOMAIN src : src[k] = NaN \/ dst[k] = NaN
  THEN [ raised |-> FALSE, scale |-> NaN, R |-> NaN, t |-> NaN ]
  ELSE LET P == Centred(src)
           Q == Centred(dst)
           m1 == Mean(src)
           m2 == Mean(dst)
           PP == Dot1(P, P)
           QP == Dot1(Q, P)
       IN IF PP = Zero \/ \A k \in DOMAIN Q : Q[k] = Zero  \* norm2 == 0
          THEN [ raised |-> TRUE, scale |-> None, R |-> None, t |-> None ]
          ELSE LET scale == RatDiv(RatAbs(QP), PP)
                   R == IF RatLess(QP, Zero) THEN << -1, 1 >> ELSE One
               IN [ raised |-> FALSE, scale |-> scale, R |-> R,
                    t |-> RatSub(m2, RatMul(RatMul(m1, scale), R)) ]

(* lines 254-274: the common points of the current pair and of the         *)
(* adjacent pair, and the scale between them                               *)
ScaleStep(m, cur, adj) ==
  LET idx_common == adj.timestamps \cap cur.timestamps
      p3d_com == PointsOf(idx_common, cur.size)
      p3d_adj_com == PointsOf(idx_common, adj.size)
      cr == estimate_scale_point_sets(p3d_com, p3d_adj_com)
      pr == procrustes_registration(p3d_com, p3d_adj_com)
  IN IF m = "cross-ratios"
     THEN [ error |-> IF cr.raised THEN "scale_error" ELSE "",
            relative_scale |-> cr.scale, relative_scale_std |-> cr.std ]
     ELSE IF m = "procrustes"
     THEN [ error |-> IF pr.raised \/ cr.raised THEN "scale_error" ELSE "",
            relative_scale |-> pr.scale, relative_scale_std |-> cr.std ]
     ELSE [ error |-> "method_error",
            relative_scale |-> None, relative_scale_std |-> None ]

(* lines 203-210: the poses and the global points of the seed pair *)
seed_poses(pair0) ==
  (pair0[2] :> [ R |-> << Factor(pair0, FALSE) >>,
                 t |-> Scaled(One, Factor(pair0, FALSE)),
                 relative_scale |-> One,
                 relative_scale_std |-> None ])
  @@ (pair0[1] :> [ R |-> eye, t |-> zeros,
                    relative_scale |-> One,
                    relative_scale_std |-> None ])

seed_triang_points(pair0, rp) ==
  << [ key |-> pair0,
       timestamps |-> rp[pair0].timestamps,
       size |-> rp[pair0].size,
       frame |-> pair0[1] ] >>

low_scale == << 1, 10 >>

(* the low-scale test left out *)
low_scale_warning_never(relative_scale) == FALSE

(* line 285 *)
low_scale_warning(relative_scale) == Less(relative_scale, low_scale)

(* the key made of the anchor view and the newly placed view *)
triang_key_anchor_first(pair, fv, sv) == << fv, sv >>

(* line 299: the global points are recorded under the pair as listed *)
triang_key(pair, fv, sv) == pair

(* the step recording the points of the pair without the pose of sv *)
place_view_points_only(ps, tp, pair, rp, f, fv, sv, est) ==
  [ kind |-> "resolved",
    poses |-> ps,
    triang_points |-> DictSet(tp,
        [ key |-> pair,
          timestamps |-> rp[pair].timestamps,
          size |-> Mul(rp[pair].size, est.relative_scale),
          frame |-> IF f.inverse THEN sv ELSE fv ]),
    warned |-> Less(est.relative_scale, low_scale) ]

(* the points moved with the inverse of the anchor's pose in both cases *)
points_frame_anchor(f, fv, sv) == fv

(* lines 289-292: the view whose inverted pose moves the points of the     *)
(* pair into the global frame: the newly placed view when the pair was     *)
(* inverted (R2, t2), the anchor otherwise (R1, t1)                        *)
points_frame(f, fv, sv) == IF f.inverse THEN sv ELSE fv

(* lines 276-300: the pose of the newly placed view sv from the pose of    *)
(* its anchor fv, and the global points of the pair                        *)
place_view(ps, tp, pair, rp, f, fv, sv, est) ==
  [ kind |-> "resolved",
    poses |-> (sv :> [ R |-> Dot(Factor(pair, f.inverse), ps[fv].R),
                       t |-> DotVec(Factor(pair, f.inverse), ps[fv].t)
                               \o Scaled(est.relative_scale,
                                         Factor(pair, f.inverse)),
                       relative_scale |-> est.relative_scale,
                       relative_scale_std |-> est.relative_scale_std ])
              @@ ps,
    triang_points |-> DictSet(tp,
        [ key |-> triang_key(pair, fv, sv),
          timestamps |-> rp[pair].timestamps,
          size |-> Mul(rp[pair].size, est.relative_scale),
          frame |-> points_frame(f, fv, sv) ]),
    warned |-> low_scale_warning(est.relative_scale) ]

(* lines 254-300, once the scale estimate est has been attempted *)
resolve_estimated(ps, tp, pair, rp, f, est) ==
  IF est.error # "" THEN [ kind |-> "raised", error |-> est.error ]
  ELSE place_view(ps, tp, pair, rp, f,
                  IF f.inverse THEN pair[2] ELSE pair[1],
                  IF f.inverse THEN pair[1] ELSE pair[2], est)

(* lines 234-300, once the adjacent pair f has been looked for *)
resolve_found(ps, tp, pair, rp, m, f) ==
  IF f.adj_pair = None THEN [ kind |-> "unmatched" ]
  ELSE resolve_estimated(ps, tp, pair, rp, f,
                         ScaleStep(m, rp[pair], Entry(tp, f.adj_pair)))

(* lines 232-300 for one pair of the work-list: the pair is left unmatched, *)
(* or the scale estimate raises, or the pair is resolved                   *)
resolve_pair(ps, tp, pair, rp, m) ==
  resolve_found(ps, tp, pair, rp, m, find_adjacent_pair(pair, tp))

RECURSIVE run_for(_, _, _, _)

(* the for loop after the pair at position k has given r *)
after_pair(st, k, rp, m, r) ==
  IF r.kind = "unmatched"
  THEN run_for([ st EXCEPT !.unmatched_pairs =
                   IF \E i \in DOMAIN @ : @[i] = st.pairs[k] THEN @
                   ELSE Append(@, st.pairs[k]) ], k + 1, rp, m)
  ELSE IF r.kind = "raised"
  THEN [ st EXCEPT !.outcome = r.error ]
  ELSE run_for([ st EXCEPT !.poses = r.poses,
                           !.triang_points = r.triang_points,
                           !.warnings = IF r.warned THEN Append(@, st.pairs[k])
                                        ELSE @ ], k + 1, rp, m)

(* lines 229-300: the for loop from position k on *)
run_for(st, k, rp, m) ==
  IF k > Len(st.pairs) THEN st
  ELSE after_pair(st, k, rp, m,
         resolve_pair(st.poses, st.triang_points, st.pairs[k], rp, m))

RECURSIVE run_while(_, _, _)

(* lines 302-306: the end of a pass *)
end_pass(after, rp, m) ==
  IF after.outcome # "running" THEN after
  ELSE IF Len(after.pairs) = Len(after.unmatched_pairs)
  THEN [ after EXCEPT !.outcome = "stuck" ]
  ELSE run_while([ after EXCEPT !.pairs = after.unmatched_pairs ], rp, m)

(* lines 226-308: the while loop *)
run_while(st, rp, m) ==
  IF Len(st.pairs) = 0 THEN [ st EXCEPT !.outcome = "returned" ]
  ELSE end_pass(run_for([ st EXCEPT !.unmatched_pairs = << >> ], 1, rp, m),
                rp, m)

(* the function as a whole, as it is called on a sub-tree (line 371) *)
concatenate_relative_poses(tree, rp, m) ==
  run_while([ poses |-> seed_poses(tree[1]),
              triang_points |-> seed_triang_points(tree[1], rp),
              pairs |-> Tail(tree),
              unmatched_pairs |-> << >>,
              warnings |-> << >>,
              outcome |-> "running" ], rp, m)

-----------------------------------------------------------------------------
EmptyGraph == [ nodes |-> {}, edges |-> {}, n_points |-> << >>,
                weight |-> << >> ]

GraphIdle ==
  /\ views = << >>
  /\ view0 = 0
  /\ landmarks = << >>
  /\ G = EmptyGraph
  /\ T = << >>

ConcatIdle ==
  /\ relative_poses = << >>
  /\ method = "procrustes"
  /\ poses = << >>
  /\ triang_points = << >>
  /\ pairs = << >>
  /\ unmatched_pairs = << >>
  /\ idx = 0
  /\ passes = 0
  /\ outcome = "running"
  /\ error_pairs = << >>
  /\ warnings = << >>

(* Before a call: no argument is bound and nothing is computed. *)
Init ==
  /\ pc = "idle"
  /\ minimal_tree = << >>
  /\ is_valid = FALSE
  /\ ConcatIdle
  /\ GraphIdle
  /\ max_paths = 0
  /\ notices = << >>
  /\ registration = << >>

(* lines 199-224: the call, with its arguments, and the seed pair *)
Seed ==
  /\ pc = "idle"
  /\ \E tree \in Trees, m \in Methods :
       \E rp \in [ EdgeSet(tree) -> RelativePoseChoices ] :
         LET pair0 == tree[1]
         IN /\ minimal_tree' = tree
            /\ method' = m
            /\ relative_poses' = rp
            /\ poses' = seed_poses(pair0)
            /\ triang_points' = seed_triang_points(pair0, rp)
            /\ pairs' = Tail(tree)
  /\ pc' = "while"
  /\ UNCHANGED << unmatched_pairs, idx, passes, outcome, error_pairs,
                  is_valid, graph_vars, robust_vars,
                  registration, warnings >>

(* line 226-228: the loop test and the start of a pass *)
WhileEnter ==
  /\ pc = "while"
  /\ Len(pairs) > 0
  /\ unmatched_pairs' = << >>
  /\ idx' = 1
  /\ passes' = passes + 1
  /\ pc' = "for"
  /\ UNCHANGED << minimal_tree, relative_poses, method, poses, triang_points,
                  pairs, outcome, error_pairs, is_valid, graph_vars, robust_vars,
                  registration, warnings >>

(* line 226, 308: the work-list is empty, the maps are returned *)
Return ==
  /\ pc = "while"
  /\ Len(pairs) = 0
  /\ outcome' = "returned"
  /\ pc' = "done"
  /\ UNCHANGED << minimal_tree, relative_poses, method, poses, triang_points,
                  pairs, unmatched_pairs, idx, passes, error_pairs, is_valid,
                  graph_vars, robust_vars,
                  registration, warnings >>

Visiting == pc = "for" /\ idx <= Len(pairs)
curr_pair == pairs[idx]
found == find_adjacent_pair(curr_pair, triang_points)
first_view == IF found.inverse THEN curr_pair[2] ELSE curr_pair[1]
second_view == IF found.inverse THEN curr_pair[1] ELSE curr_pair[2]
estimate == ScaleStep(method, relative_poses[curr_pair],
                      Entry(triang_points, found.adj_pair))

(* the pair is skipped without being kept for the next pass *)
KeepUnmatched_dropped ==
  /\ Visiting
  /\ found.adj_pair = None
  /\ idx' = idx + 1
  /\ UNCHANGED << pc, minimal_tree, relative_poses, method, poses,
                  triang_points, pairs, unmatched_pairs, passes, outcome,
                  error_pairs, is_valid, graph_vars, robust_vars,
                  registration, warnings >>

(* the pair is appended without the membership test of line 235 *)
KeepUnmatched_repeated ==
  /\ Visiting
  /\ found.adj_pair = None
  /\ unmatched_pairs' = Append(unmatched_pairs, curr_pair)
  /\ idx' = idx + 1
  /\ UNCHANGED << pc, minimal_tree, relative_poses, method, poses,
                  triang_points, pairs, passes, outcome, error_pairs, is_valid,
                  graph_vars, robust_vars, registration, warnings >>

(* lines 234-237 *)
KeepUnmatched ==
  /\ Visiting
  /\ found.adj_pair = None
  /\ unmatched_pairs' = IF \E k \in DOMAIN unmatched_pairs :
                             unmatched_pairs[k] = curr_pair
                        THEN unmatched_pairs
                        ELSE Append(unmatched_pairs, curr_pair)
  /\ idx' = idx + 1
  /\ UNCHANGED << pc, minimal_tree, relative_poses, method, poses,
                  triang_points, pairs, passes, outcome, error_pairs, is_valid,
                  graph_vars, robust_vars,
                  registration, warnings >>

(* lines 239-274, when the method is unknown or the estimator raises *)
ResolveRaises ==
  /\ Visiting
  /\ found.adj_pair # None
  /\ estimate.error # ""
  /\ outcome' = estimate.error
  /\ pc' = "done"
  /\ UNCHANGED << minimal_tree, relative_poses, method, poses, triang_points,
                  pairs, unmatched_pairs, idx, passes, error_pairs, is_valid,
                  graph_vars, robust_vars,
                  registration, warnings >>

(* an adjacent pair is found and the scale estimate raises *)
CanRaise ==
  /\ Visiting
  /\ found.adj_pair # None
  /\ estimate.error # ""

(* an adjacent pair is found and the scale is estimated *)
CanResolve ==
  /\ Visiting
  /\ found.adj_pair # None
  /\ estimate.error = ""

(* the step scaling the triangulated points of the pair where they are,    *)
(* in the caller's relative_poses                                          *)
Resolve_in_place ==
  /\ CanResolve
  /\ LET r == resolve_pair(poses, triang_points, curr_pair, relative_poses,
                           method)
     IN /\ poses' = r.poses
        /\ triang_points' = r.triang_points
        /\ warnings' = IF r.warned THEN Append(warnings, curr_pair)
                       ELSE warnings
        /\ relative_poses' =
             [ relative_poses EXCEPT ![curr_pair].size =
                 Entry(r.triang_points, curr_pair).size ]
  /\ idx' = idx + 1
  /\ UNCHANGED << pc, minimal_tree, method, pairs,
                  unmatched_pairs, passes, outcome, error_pairs, is_valid,
                  graph_vars, robust_vars, registration >>

(* lines 239-300 *)
Resolve ==
  /\ CanResolve
  /\ LET r == resolve_pair(poses, triang_points, curr_pair, relative_poses,
                           method)
     IN /\ poses' = r.poses
        /\ triang_points' = r.triang_points
        /\ warnings' = IF r.warned THEN Append(warnings, curr_pair)
                       ELSE warnings
  /\ idx' = idx + 1
  /\ UNCHANGED << pc, minimal_tree, relative_poses, method, pairs,
                  unmatched_pairs, passes, outcome, error_pairs, is_valid,
                  graph_vars, robust_vars, registration >>

(* the stalled pass reports and leaves the loop by the break of line 304 *)
RaiseStuck_breaks ==
  /\ pc = "for"
  /\ idx > Len(pairs)
  /\ Len(pairs) = Len(unmatched_pairs)
  /\ outcome' = "returned"
  /\ pc' = "done"
  /\ UNCHANGED << minimal_tree, relative_poses, method, poses, triang_points,
                  pairs, unmatched_pairs, idx, passes, error_pairs, is_valid,
                  graph_vars, robust_vars,
                  registration, warnings >>

(* lines 302-303 *)
RaiseStuck ==
  /\ pc = "for"
  /\ idx > Len(pairs)
  /\ Len(pairs) = Len(unmatched_pairs)
  /\ outcome' = "stuck"
  /\ error_pairs' = unmatched_pairs
  /\ pc' = "done"
  /\ UNCHANGED << minimal_tree, relative_poses, method, poses, triang_points,
                  pairs, unmatched_pairs, idx, passes, is_valid, graph_vars, robust_vars,
                  registration, warnings >>

(* the next pass is started whether or not the pass made progress *)
NextPass_unchecked ==
  /\ pc = "for"
  /\ idx > Len(pairs)
  /\ pairs' = unmatched_pairs
  /\ pc' = "while"
  /\ UNCHANGED << minimal_tree, relative_poses, method, poses, triang_points,
                  unmatched_pairs, idx, passes, outcome, error_pairs, is_valid,
                  graph_vars, robust_vars,
                  registration, warnings >>

(* line 306 *)
NextPass ==
  /\ pc = "for"
  /\ idx > Len(pairs)
  /\ Len(pairs) # Len(unmatched_pairs)
  /\ pairs' = unmatched_pairs
  /\ pc' = "while"
  /\ UNCHANGED << minimal_tree, relative_poses, method, poses, triang_points,
                  unmatched_pairs, idx, passes, outcome, error_pairs, is_valid,
                  graph_vars, robust_vars,
                  registration, warnings >>

(* a step of the work-list loop, lines 226-308 *)
LoopStep ==
  \/ WhileEnter
  \/ Return
  \/ KeepUnmatched
  \/ ResolveRaises
  \/ Resolve
  \/ RaiseStuck
  \/ NextPass

Next == Seed \/ LoopStep

Spec == Init /\ [][Next]_vars

(* A third family of inputs: the seed pair may have the correspondence ids *)
(* of two disjoint groups of landmarks, the other pairs those of one       *)
(* group.                                                                  *)
IdChoices == { {1, 2, 3, 4}, {1, 2}, {3, 4} }

(* lines 199-224, for the third family of inputs *)
SeedIds ==
  /\ pc = "idle"
  /\ \E tree \in Trees, m \in Methods :
       \E rp \in { f \in [ EdgeSet(tree) -> [ timestamps : IdChoices,
                                              size : SizeChoices ] ] :
                     \A e \in EdgeSet(tree) \ { tree[1] } :
                        f[e].timestamps # {1, 2, 3, 4} } :
         LET pair0 == tree[1]
         IN /\ minimal_tree' = tree
            /\ method' = m
            /\ relative_poses' = rp
            /\ poses' = seed_poses(pair0)
            /\ triang_points' = seed_triang_points(pair0, rp)
            /\ pairs' = Tail(tree)
  /\ pc' = "while"
  /\ UNCHANGED << unmatched_pairs, idx, passes, outcome, error_pairs,
                  is_valid, graph_vars, robust_vars, registration, warnings >>

SpecIds == Init /\ [][SeedIds \/ LoopStep]_vars

(* The loop runs in one thread and no step of it waits: a step that is    *)
(* possible is taken.                                                      *)
(* The weak fairness of Resolve and of ResolveRaises is written out with   *)
(* their enabling conditions, CanResolve and CanRaise.                     *)
SpecFair ==
  /\ Init /\ [][Next]_vars
  /\ WF_vars(WhileEnter \/ Return \/ KeepUnmatched \/ RaiseStuck \/ NextPass)
  /\ ([]<>(~ CanResolve) \/ []<><<Resolve>>_vars)
  /\ ([]<>(~ CanRaise) \/ []<><<ResolveRaises>>_vars)

(* the view trees over the views of a rig of three *)
RigViews == 0 .. 2
RigTrees == { tree \in Trees : ViewsOf(tree) \subseteq RigViews }

(* lines 199-224, for the second family of inputs *)
SeedScaled ==
  /\ pc = "idle"
  /\ \E tree \in RigTrees, m \in Methods :
       \E d \in EdgeSet(tree), c \in ScaledPoseChoices :
         LET pair0 == tree[1]
             rp == [ e \in EdgeSet(tree) |-> IF e = d THEN c ELSE DefaultPose ]
         IN /\ minimal_tree' = tree
            /\ method' = m
            /\ relative_poses' = rp
            /\ poses' = seed_poses(pair0)
            /\ triang_points' = seed_triang_points(pair0, rp)
            /\ pairs' = Tail(tree)
  /\ pc' = "while"
  /\ UNCHANGED << unmatched_pairs, idx, passes, outcome, error_pairs,
                  is_valid, graph_vars, robust_vars, registration, warnings >>

NextScale == SeedScaled \/ LoopStep

SpecScale == Init /\ [][NextScale]_vars

-----------------------------------------------------------------------------
(* verify_view_tree (lines 17-32), on networkx's DiGraph, find_cycle and   *)
(* number_connected_components.                                            *)

(* nx.DiGraph: add_edge keeps one edge per directed pair *)
DiGraph(view_tree) ==
  [ nodes |-> ViewsOf(view_tree), edges |-> EdgeSet(view_tree) ]

Successors(E, S) == { e[2] : e \in { x \in E : x[1] \in S } }

RECURSIVE Descendants(_, _)
Descendants(E, S) ==
  LET N == S \cup Successors(E, S)
  IN IF N = S THEN S ELSE Descendants(E, N)

(* find_cycle with the default orientation follows the edges' directions:  *)
(* it returns a cycle iff some node reaches itself along directed edges,   *)
(* and raises NetworkXNoCycle otherwise.                                   *)
find_cycle_raises(D) ==
  ~ \E v \in D.nodes : v \in Descendants(D.edges, Successors(D.edges, {v}))

(* the directed graph handed to the component count as it is *)
to_undirected_skipped(D) == D

to_undirected(D) ==
  [ nodes |-> D.nodes,
    edges |-> D.edges \cup { << e[2], e[1] >> : e \in D.edges } ]

RECURSIVE CountComponents(_, _)
CountComponents(U, left) ==
  IF left = {} THEN 0
  ELSE LET v == CHOOSE x \in left : TRUE
       IN 1 + CountComponents(U, left \ Descendants(U.edges, {v}))

number_connected_components(U) == CountComponents(U, U.nodes)

(* the verdict without the component count *)
verify_view_tree_cycles_only(view_tree) ==
  find_cycle_raises(DiGraph(view_tree))

verify_view_tree(view_tree) ==
  LET D == DiGraph(view_tree)
      no_cycles_found == find_cycle_raises(D)
      is_connected == number_connected_components(to_undirected(D)) = 1
  IN no_cycles_found /\ is_connected

(* a call of verify_view_tree on any edge list *)
VerifyViewTree ==
  /\ pc = "idle"
  /\ \E view_tree \in EdgeLists :
       /\ minimal_tree' = view_tree
       /\ is_valid' = verify_view_tree(view_tree)
  /\ pc' = "verified"
  /\ UNCHANGED << concat_vars, graph_vars, robust_vars, registration >>

NextVerify == VerifyViewTree

SpecVerify == Init /\ [][NextVerify]_vars

-----------------------------------------------------------------------------
(* The undirected view of an edge list, stated without the graph search.   *)
UndirectedEdges(tree) == { ViewsOfPair(tree[i]) : i \in DOMAIN tree }

Connected(V, UE) ==
  /\ V # {}
  /\ \A S \in SUBSET V :
       (S # {} /\ S # V) => \E e \in UE : e \cap S # {} /\ e \ S # {}

HasSimpleCycle(V, UE) ==
  \E S \in SUBSET V :
    /\ S # {}
    /\ \A v \in S : Cardinality({ u \in S : u # v /\ {u, v} \in UE }) >= 2

HasSelfLoop(tree) == \E i \in DOMAIN tree : tree[i][1] = tree[i][2]

ListedBothWays(tree) ==
  \E i, j \in DOMAIN tree :
    /\ tree[i][1] # tree[i][2]
    /\ tree[i][1] = tree[j][2]
    /\ tree[i][2] = tree[j][1]

UndirectedCycle(tree) ==
  \/ HasSimpleCycle(ViewsOf(tree), UndirectedEdges(tree))
  \/ HasSelfLoop(tree)
  \/ ListedBothWays(tree)

IsSpanningTree(tree, rig) ==
  /\ ViewsOf(tree) = rig
  /\ Connected(rig, UndirectedEdges(tree))
  /\ ~ UndirectedCycle(tree)

(* C5: an edge list with a cycle in the undirected view of its edges       *)
(* (whatever the directions, a self-loop and a pair listed both ways       *)
(* included) is found invalid by verify_view_tree.                         *)
C5_UndirectedCycleInvalid ==
  (pc = "verified" /\ UndirectedCycle(minimal_tree)) => ~ is_valid

(* C6: an edge list that is a spanning tree of the view set it covers      *)
(* (connected and acyclic in the undirected view), in whatever order and   *)
(* with whatever directions, is found valid by verify_view_tree.           *)
C6_SpanningTreeValid ==
  \A rig \in SUBSET Views :
    (pc = "verified" /\ IsSpanningTree(minimal_tree, rig)) => is_valid

C6_Witness ==
  /\ pc = "verified"
  /\ IsSpanningTree(minimal_tree, Views)
  /\ minimal_tree[1][2] = minimal_tree[2][2]
  /\ is_valid

(* C7: verify_view_tree finds invalid every edge list whose undirected     *)
(* graph does not have exactly one connected component: two or more        *)
(* components, and the empty list.                                         *)
C7_NotOneComponentInvalid ==
  (pc = "verified"
     /\ ~ Connected(ViewsOf(minimal_tree), UndirectedEdges(minimal_tree)))
  => ~ is_valid

C7_Witness ==
  /\ pc = "verified"
  /\ minimal_tree # << >>
  /\ ~ UndirectedCycle(minimal_tree)
  /\ ~ Connected(ViewsOf(minimal_tree), UndirectedEdges(minimal_tree))
  /\ ~ is_valid

(* C8: an edge list that does not cover every view of the rig is found     *)
(* invalid, also when its edges form a connected acyclic tree.             *)
C8_NotSpanningInvalid ==
  (pc = "verified" /\ ViewsOf(minimal_tree) # Views) => ~ is_valid

-----------------------------------------------------------------------------
(* concatenate_relative_poses *)

root == minimal_tree[1][1]

RootPose == [ R |-> eye, t |-> zeros, relative_scale |-> One,
              relative_scale_std |-> None ]

(* the views reachable from the seed edge through shared views *)
SeedComponent(tree) ==
  Descendants(to_undirected(DiGraph(tree)).edges, ViewsOfPair(tree[1]))

DisconnectedEdges(tree) ==
  { e \in EdgeSet(tree) : e[1] \notin SeedComponent(tree) }

SharesView(p, q) == ViewsOfPair(p) \cap ViewsOfPair(q) # {}

(* C1: when concatenate_relative_poses returns for a tree that               *)
(* verify_view_tree accepts, poses has an entry for every view of the tree *)
(* and triang_points an entry for every edge of the tree.                  *)
C1_ReturnCoversTree ==
  (outcome = "returned" /\ verify_view_tree(minimal_tree))
  => /\ DOMAIN poses = ViewsOf(minimal_tree)
     /\ KeysOf(triang_points) = EdgeSet(minimal_tree)

C1_Witness ==
  /\ outcome = "returned"
  /\ verify_view_tree(minimal_tree)
  /\ Len(minimal_tree) = 3
  /\ passes = 2
  /\ DOMAIN poses = ViewsOf(minimal_tree)
  /\ KeysOf(triang_points) = EdgeSet(minimal_tree)

(* C2: for a tree that verify_view_tree accepts, in every state from the   *)
(* seeding on and in the result, the root view (first view of the first    *)
(* edge) has identity rotation, zero translation and relative_scale 1: no  *)
(* later edge changes the root's GlobalPose.                               *)
C2_RootPoseFixed ==
  (pc \in {"while", "for", "done"} /\ verify_view_tree(minimal_tree))
  => /\ poses[root].R = RootPose.R
     /\ poses[root].t = RootPose.t
     /\ poses[root].relative_scale = RootPose.relative_scale

(* C3: when the tree has edges that are not connected to the component of  *)
(* the seed edge, the run ends with the stuck error, which names every     *)
(* unresolved pair, none of them sharing a view with a resolved pair; it   *)
(* never returns.                                                          *)
C3_DisconnectedRaisesStuck ==
  (pc = "done" /\ DisconnectedEdges(minimal_tree) # {})
  => /\ outcome = "stuck"
     /\ Range(error_pairs) = EdgeSet(minimal_tree) \ KeysOf(triang_points)
     /\ Range(error_pairs) = DisconnectedEdges(minimal_tree)
     /\ \A p \in Range(error_pairs) : \A k \in KeysOf(triang_points) :
          ~ SharesView(p, k)

(* C3 as amended: with such edges the run never returns; it ends with the  *)
(* stuck error naming every unresolved pair (none sharing a view with a    *)
(* resolved pair), unless resolving an edge of the seed's component raised *)
(* first (unknown method, failed scale estimate).                          *)
C3_DisconnectedNeverReturned ==
  (pc = "done" /\ DisconnectedEdges(minimal_tree) # {})
  => /\ outcome \in {"stuck", "method_error", "scale_error"}
     /\ outcome = "stuck" =>
          /\ Range(error_pairs) = EdgeSet(minimal_tree) \ KeysOf(triang_points)
          /\ Range(error_pairs) = DisconnectedEdges(minimal_tree)
          /\ \A p \in Range(error_pairs) : \A k \in KeysOf(triang_points) :
               ~ SharesView(p, k)
     /\ outcome # "stuck" =>
          /\ idx <= Len(pairs)
          /\ curr_pair \notin DisconnectedEdges(minimal_tree)

C3_Witness ==
  /\ pc = "done"
  /\ outcome = "stuck"
  /\ Len(minimal_tree) = 3
  /\ Len(triang_points) = 2
  /\ Range(error_pairs) = DisconnectedEdges(minimal_tree)
  /\ DisconnectedEdges(minimal_tree) # {}

(* C4: for every view tree the work-list loop ends, by returning with an   *)
(* empty work-list or by raising the stuck error, after at most |edges|    *)
(* passes.                                                                 *)
C4_EndsReturnedOrStuck ==
  /\ passes <= Len(minimal_tree)
  /\ pc = "done" => \/ outcome = "returned" /\ pairs = << >>
                    \/ outcome = "stuck"

(* The position of the run: it grows with every step, pass by pass. *)
PassSpan == MaxEdges + 3
Position ==
  IF pc = "idle" THEN -1
  ELSE passes * PassSpan
       + (IF pc = "for" THEN idx ELSE IF pc = "while" THEN PassSpan - 1
          ELSE PassSpan)

(* C4 as amended: the loop ends after at most |edges| passes, by returning *)
(* with an empty work-list, by raising the stuck error, or by the error    *)
(* raised while an edge is resolved (unknown method, failed scale          *)
(* estimate).  Termination: inside the loop a step is possible until the   *)
(* run has ended (Resolve has no condition but CanResolve, ResolveRaises   *)
(* none but its three first conjuncts), every step                         *)
(* moves the position forward, and the position is bounded.                *)
C4_Terminates ==
  /\ [](pc \in {"while", "for"} =>
         \/ CanResolve
         \/ Visiting /\ found.adj_pair # None /\ estimate.error # ""
         \/ ENABLED (WhileEnter \/ Return \/ KeepUnmatched \/ RaiseStuck
                       \/ NextPass))
  /\ [][Position' > Position]_vars
  /\ [](Position <= (Len(minimal_tree) + 1) * PassSpan)
  /\ [](passes <= Len(minimal_tree))
  /\ [](pc = "done" => \/ outcome = "returned" /\ pairs = << >>
                       \/ outcome = "stuck" /\ idx > Len(pairs)
                       \/ outcome \in {"method_error", "scale_error"}
                            /\ idx <= Len(pairs))

C4_Witness ==
  /\ pc = "done"
  /\ outcome = "stuck"
  /\ Len(minimal_tree) = 3
  /\ passes = 2
  /\ minimal_tree[2] = minimal_tree[3]

-----------------------------------------------------------------------------
(* build_view_graph (lines 310-325) and sample_random_view_tree            *)
(* (lines 327-337), on networkx's Graph, maximum_spanning_tree and         *)
(* dfs_edges.                                                              *)

(* The timestamp lists a view may have: two lists of MinCommonPoints + 1   *)
(* distinct ids that share MinCommonPoints ids (the first one with an id   *)
(* listed twice), a longer list that shares MinCommonPoints + 1 ids with   *)
(* both, and a short list.                                                 *)
LandmarkChoices ==
  { Append(Interval(1, MinCommonPoints + 1), 1),
    Interval(2, MinCommonPoints + 2),
    Interval(1, MinCommonPoints + 2), Interval(1, 3) }

(* itertools.combinations(views, 2): the pairs of positions, in list order *)
Combinations(vs) ==
  { c \in (DOMAIN vs) \X (DOMAIN vs) : c[1] < c[2] }

intersection(lm, view1, view2) == Range(lm[view1]) \cap Range(lm[view2])

build_view_graph_atleast(vs, lm) ==
  LET E == { << vs[c[1]], vs[c[2]] >> : c \in
               { c \in Combinations(vs) :
                   Cardinality(intersection(lm, vs[c[1]], vs[c[2]]))
                     >= MinCommonPoints } }
  IN [ nodes |-> Range(vs),
       edges |-> E,
       n_points |-> [ e \in E |-> Cardinality(intersection(lm, e[1], e[2])) ],
       weight |-> << >> ]

build_view_graph(vs, lm) ==
  LET E == { << vs[c[1]], vs[c[2]] >> : c \in
               { c \in Combinations(vs) :
                   Cardinality(intersection(lm, vs[c[1]], vs[c[2]]))
                     > MinCommonPoints } }
  IN [ nodes |-> Range(vs),
       edges |-> E,
       n_points |-> [ e \in E |-> Cardinality(intersection(lm, e[1], e[2])) ],
       weight |-> << >> ]

(* An undirected edge joins its two views whatever the order they are      *)
(* stored in.                                                              *)
BothWays(E) == E \cup { << e[2], e[1] >> : e \in E }

(* the edges by decreasing weight *)
SortedByWeight(E, w) ==
  [ k \in 1 .. Cardinality(E) |->
      CHOOSE e \in E : w[e] = Cardinality(E) - k + 1 ]

(* Kruskal: an edge is taken when its views are not yet joined *)
RECURSIVE kruskal(_, _, _)
kruskal(order, k, taken) ==
  IF k > Len(order) THEN taken
  ELSE LET e == order[k]
       IN IF e[2] \in Descendants(BothWays(Range(taken)), {e[1]})
          THEN kruskal(order, k + 1, taken)
          ELSE kruskal(order, k + 1, Append(taken, e))

maximum_spanning_tree(graph) ==
  kruskal(SortedByWeight(graph.edges, graph.weight), 1, << >>)

(* the neighbours of a view in the tree, in the order the edges were added *)
RECURSIVE neighbors(_, _, _)
neighbors(tree, v, k) ==
  IF k > Len(tree) THEN << >>
  ELSE (IF tree[k][1] = v THEN << tree[k][2] >>
        ELSE IF tree[k][2] = v THEN << tree[k][1] >>
        ELSE << >>) \o neighbors(tree, v, k + 1)

(* depth-first search: the edge to each child when it is first reached *)
RECURSIVE dfs_visit(_, _, _, _)
dfs_visit(tree, parent, children, state) ==
  IF children = << >> THEN state
  ELSE LET child == Head(children)
       IN IF child \in state.visited
          THEN dfs_visit(tree, parent, Tail(children), state)
          ELSE dfs_visit(tree, parent, Tail(children),
                 dfs_visit(tree, child, neighbors(tree, child, 1),
                   [ visited |-> state.visited \cup {child},
                     edges |-> Append(state.edges, << parent, child >>) ]))

(* the edges of the search, each one from the child to its parent *)
dfs_edges_reversed(tree, source) ==
  LET found_edges == dfs_visit(tree, source, neighbors(tree, source, 1),
                       [ visited |-> {source}, edges |-> << >> ]).edges
  IN [ k \in DOMAIN found_edges |->
         << found_edges[k][2], found_edges[k][1] >> ]

(* the edges of the search, the last one found first *)
dfs_edges_backwards(tree, source) ==
  LET found_edges == dfs_visit(tree, source, neighbors(tree, source, 1),
                       [ visited |-> {source}, edges |-> << >> ]).edges
  IN [ k \in DOMAIN found_edges |-> found_edges[Len(found_edges) + 1 - k] ]

dfs_edges(tree, source) ==
  dfs_visit(tree, source, neighbors(tree, source, 1),
            [ visited |-> {source}, edges |-> << >> ]).edges

(* lines 327-329: the call, with its arguments, and the view graph *)
BuildGraph ==
  /\ pc = "idle"
  /\ \E lm \in [ GraphViews -> LandmarkChoices ], v0 \in GraphViews :
       LET vs == [ i \in 1 .. NGraphViews |-> i - 1 ]
       IN /\ views' = vs
          /\ view0' = v0
          /\ landmarks' = lm
          /\ G' = build_view_graph(vs, lm)
  /\ pc' = "weights"
  /\ UNCHANGED << minimal_tree, is_valid, T, concat_vars, robust_vars,
                  registration >>

(* lines 331-332: independent random weights, that is any order of the edges *)
RandomWeights ==
  /\ pc = "weights"
  /\ \E order \in Perms(G.edges) :
       G' = [ G EXCEPT !.weight =
                [ e \in G.edges |->
                    CHOOSE r \in 1 .. Len(order) : order[Len(order) - r + 1] = e ] ]
  /\ pc' = "mst"
  /\ UNCHANGED << minimal_tree, is_valid, views, view0, landmarks, T,
                  concat_vars, robust_vars, registration >>

(* lines 334-337 *)
SpanningTree ==
  /\ pc = "mst"
  /\ T' = maximum_spanning_tree(G)
  /\ minimal_tree' = dfs_edges(T', view0)
  /\ pc' = "sampled"
  /\ UNCHANGED << is_valid, views, view0, landmarks, G, concat_vars,
                  robust_vars, registration >>

(* the sampled tree handed to the validator *)
VerifySampled ==
  /\ pc = "sampled"
  /\ is_valid' = verify_view_tree(minimal_tree)
  /\ pc' = "verified"
  /\ UNCHANGED << minimal_tree, concat_vars, graph_vars, robust_vars,
                  registration >>

NextGraph == BuildGraph \/ RandomWeights \/ SpanningTree \/ VerifySampled

SpecGraph == Init /\ [][NextGraph]_vars

-----------------------------------------------------------------------------
(* compute_relative_poses (lines 101-127) and                              *)
(* compute_relative_poses_robust (lines 339-405), on networkx's            *)
(* all_simple_paths.                                                       *)

(* The rig of the robust estimate: four views, the least number with      *)
(* which a pair has two alternate paths.                                   *)
RobustViews == 0 .. 3

(* The landmarks of a rig.  Two views that are to be joined observe a      *)
(* block of landmarks of their own, so that they share                     *)
(* MinCommonPoints + 1 ids; the views of the core also observe two         *)
(* landmarks together, the only ids that three views have in common.       *)
CoreIds == { 1, 2 }
RobustPairs == { p \in RobustViews \X RobustViews : p[1] < p[2] }
RobustLayouts ==
  [ joined : SUBSET RobustPairs,
    core : { RobustViews, RobustViews \ { 3 } } ]

SharedCore(layout, p) ==
  IF p[1] \in layout.core /\ p[2] \in layout.core THEN CoreIds ELSE {}

BlockIds(layout, p) ==
  LET first == 3 + (MinCommonPoints + 1) * (p[1] * Cardinality(RobustViews) + p[2])
  IN first .. (first + MinCommonPoints - Cardinality(SharedCore(layout, p)))

LandmarksOf(layout) ==
  [ v \in RobustViews |->
      SortedIds((IF v \in layout.core THEN CoreIds ELSE {})
                \cup UNION { BlockIds(layout, p) :
                               p \in { q \in layout.joined : v \in ViewsOfPair(q) } }) ]

RobustLandmarks == { LandmarksOf(layout) : layout \in RobustLayouts }

MaxPathsChoices == 0 .. 2

(* The scene is noiseless: view v stands at v * v along a line, and the    *)
(* two-view estimate triangulates a pair's points in the unit of the       *)
(* pair's baseline.                                                        *)
SceneCentre(v) == v * v
SceneSize(pair) == Rat(1, Abs(SceneCentre(pair[1]) - SceneCentre(pair[2])))

(* lines 101-127: one entry per listed pair, under the key (view1, view2) *)
compute_relative_poses(view_tree, lm) ==
  [ e \in EdgeSet(view_tree) |->
      [ timestamps |-> intersection(lm, e[1], e[2]),
        size |-> SceneSize(e) ] ]

(* the neighbours of a view in the view graph, in the order the edges were *)
(* added, which is the order of the views list                             *)
adjacency(graph, vs, v) ==
  SelectSeq(vs, LAMBDA w : << v, w >> \in BothWays(graph.edges))

(* nx.all_simple_paths(G, source, target, 2): depth-first from source, a   *)
(* neighbour that is the target ends a path of one edge, any other         *)
(* neighbour that has the target as neighbour gives a path of two edges    *)
RECURSIVE simple_paths_from(_, _, _, _, _)
simple_paths_from(graph, vs, source, target, children) ==
  IF children = << >> THEN << >>
  ELSE LET w == Head(children)
           rest == simple_paths_from(graph, vs, source, target, Tail(children))
       IN IF w = target THEN << << source, target >> >> \o rest
          ELSE IF << w, target >> \in BothWays(graph.edges)
          THEN << << source, w, target >> >> \o rest
          ELSE rest

all_simple_paths(graph, vs, source, target) ==
  simple_paths_from(graph, vs, source, target, adjacency(graph, vs, source))

(* every path of two edges is kept, whatever max_paths *)
triangles_uncapped(graph, vs, view1, view2, mp) ==
  SelectSeq(all_simple_paths(graph, vs, view1, view2),
            LAMBDA x : Len(x) = 3)

(* line 357 *)
triangles(graph, vs, view1, view2, mp) ==
  LET found_paths == SelectSeq(all_simple_paths(graph, vs, view1, view2),
                               LAMBDA x : Len(x) = 3)
  IN SubSeq(found_paths, 1,
            IF mp < Len(found_paths) THEN mp ELSE Len(found_paths))

(* the notice is never printed *)
no_other_way_silent(paths) == FALSE

(* line 358 *)
no_other_way(paths) == Len(paths) = 0

(* np.mean(estimates, 0): the sum of the estimates over their number *)
np_mean(estimates) == [ terms |-> estimates, divisor |-> Len(estimates) ]

(* lines 366-371: the concatenation of the two edges of an alternate path *)
path_run(nodes, lm, m) ==
  concatenate_relative_poses(
    << << nodes[1], nodes[2] >>, << nodes[2], nodes[3] >> >>,
    compute_relative_poses(
      << << nodes[1], nodes[2] >>, << nodes[2], nodes[3] >> >>, lm), m)

(* lines 364-400, once the alternate paths have been concatenated: an      *)
(* error of a concatenation ends the call, otherwise the direct estimate   *)
(* and the estimates of the paths are averaged                             *)
robust_mean(pair, lm, paths, runs) ==
  IF \E k \in DOMAIN runs : runs[k].outcome # "returned"
  THEN [ kind |-> "raised",
         error |-> runs[CHOOSE k \in DOMAIN runs :
                          /\ runs[k].outcome # "returned"
                          /\ \A j \in 1 .. (k - 1) :
                               runs[j].outcome = "returned"].outcome,
         noticed |-> no_other_way(paths) ]
  ELSE [ kind |-> "computed",
         noticed |-> no_other_way(paths),
         key |-> << pair[1], pair[2] >>,
         entry |->
           [ Rd |-> np_mean(<< << Factor(pair, FALSE) >> >>
                      \o [ k \in DOMAIN runs |-> runs[k].poses[pair[2]].R ]),
             td |-> np_mean(<< Scaled(One, Factor(pair, FALSE)) >>
                      \o [ k \in DOMAIN runs |-> runs[k].poses[pair[2]].t ]),
             timestamps |->
               compute_relative_poses(<< pair >>, lm)[pair].timestamps ] ]

robust_paths(pair, lm, m, paths) ==
  robust_mean(pair, lm, paths,
              [ k \in DOMAIN paths |-> path_run(paths[k], lm, m) ])

(* lines 346-400 for one designated pair *)
robust_pair(graph, vs, lm, pair, mp, m) ==
  robust_paths(pair, lm, m, triangles(graph, vs, pair[1], pair[2], mp))

(* lines 339-345: the call, with its arguments, and the view graph; the    *)
(* designated pairs are pairs of views that the view graph joins, the      *)
(* second one leading from a view of the first one to a new view           *)
RobustCall ==
  /\ pc = "idle"
  /\ \E lm \in RobustLandmarks, mp \in MaxPathsChoices, m \in Methods :
       LET vs == [ i \in 1 .. Cardinality(RobustViews) |-> i - 1 ]
           graph == build_view_graph(vs, lm)
           joined == BothWays(graph.edges)
       IN \E view_tree \in [ 1 .. 1 -> joined ]
                         \cup { t \in [ 1 .. 2 -> joined ] :
                                  /\ t[2][1] \in ViewsOfPair(t[1])
                                  /\ t[2][2] \notin ViewsOfPair(t[1]) } :
            /\ views' = vs
            /\ landmarks' = lm
            /\ G' = graph
            /\ minimal_tree' = view_tree
            /\ max_paths' = mp
            /\ method' = m
  /\ idx' = 1
  /\ pc' = "robust"
  /\ UNCHANGED << relative_poses, poses, triang_points, pairs,
                  unmatched_pairs, passes, outcome, error_pairs, warnings,
                  is_valid, view0, T, notices, registration >>

(* lines 346-400: the pose of the next designated pair *)
RobustPair ==
  /\ pc = "robust"
  /\ idx <= Len(minimal_tree)
  /\ LET r == robust_pair(G, views, landmarks, minimal_tree[idx], max_paths,
                          method)
     IN /\ r.kind = "computed"
        /\ relative_poses' = (r.key :> r.entry) @@ relative_poses
        /\ notices' = IF r.noticed THEN Append(notices, minimal_tree[idx])
                      ELSE notices
  /\ idx' = idx + 1
  /\ UNCHANGED << pc, minimal_tree, method, poses, triang_points, pairs,
                  unmatched_pairs, passes, outcome, error_pairs, warnings,
                  is_valid, graph_vars, max_paths, registration >>

(* line 371: the concatenation of an alternate path raises *)
RobustPairRaises ==
  /\ pc = "robust"
  /\ idx <= Len(minimal_tree)
  /\ LET r == robust_pair(G, views, landmarks, minimal_tree[idx], max_paths,
                          method)
     IN /\ r.kind = "raised"
        /\ notices' = IF r.noticed THEN Append(notices, minimal_tree[idx])
                      ELSE notices
        /\ outcome' = r.error
  /\ pc' = "robust_done"
  /\ UNCHANGED << minimal_tree, relative_poses, method, poses, triang_points,
                  pairs, unmatched_pairs, idx, passes, error_pairs, warnings,
                  is_valid, graph_vars, max_paths, registration >>

(* line 405 *)
RobustReturn ==
  /\ pc = "robust"
  /\ idx > Len(minimal_tree)
  /\ outcome' = "returned"
  /\ pc' = "robust_done"
  /\ UNCHANGED << minimal_tree, relative_poses, method, poses, triang_points,
                  pairs, unmatched_pairs, idx, passes, error_pairs, warnings,
                  is_valid, graph_vars, robust_vars, registration >>

NextRobust == RobustCall \/ RobustPair \/ RobustPairRaises \/ RobustReturn

SpecRobust == Init /\ [][NextRobust]_vars

(* the functions whose outputs are keyed by pairs, together *)
NextKeys == SeedScaled \/ LoopStep \/ NextRobust

SpecKeys == Init /\ [][NextKeys]_vars

-----------------------------------------------------------------------------
(* The sampled tree handed to concatenate_relative_poses, with the         *)
(* relative poses of its edges (compute_relative_poses on the landmarks    *)
(* the graph was built from).                                              *)
ConcatSampled ==
  /\ pc = "sampled"
  /\ minimal_tree # << >>
  /\ \E m \in Methods :
       LET rp == compute_relative_poses(minimal_tree, landmarks)
       IN /\ method' = m
          /\ relative_poses' = rp
          /\ poses' = seed_poses(minimal_tree[1])
          /\ triang_points' = seed_triang_points(minimal_tree[1], rp)
          /\ pairs' = Tail(minimal_tree)
  /\ pc' = "while"
  /\ UNCHANGED << minimal_tree, unmatched_pairs, idx, passes, outcome,
                  error_pairs, is_valid, graph_vars, robust_vars,
                  registration, warnings >>

(* line 203 on a tree without edges (view0 has no edge in the graph) *)
ConcatSampledRaises ==
  /\ pc = "sampled"
  /\ minimal_tree = << >>
  /\ outcome' = "index_error"
  /\ pc' = "done"
  /\ UNCHANGED << minimal_tree, relative_poses, method, poses, triang_points,
                  pairs, unmatched_pairs, idx, passes, error_pairs, is_valid,
                  graph_vars, robust_vars, registration, warnings >>

SpecSampled ==
  Init /\ [][NextGraph \/ ConcatSampled \/ ConcatSampledRaises
               \/ SeedScaled \/ LoopStep]_vars

-----------------------------------------------------------------------------
(* The scale estimators on a point set and a scaled copy of it             *)
(* (point_set_registration.py, lines 18-81).                               *)
MaxPoints == 3
Coordinates == { -1, 0, 2 }
PointSets ==
  UNION { [ 1 .. n -> { << c, 1 >> : c \in Coordinates } ] : n \in 0 .. MaxPoints }
ScaleChoices ==
  { << 1, 2 >>, One, << 2, 1 >>, << max_est - 1, 1 >>, << max_est, 1 >> }

(* a call of each estimator on src and dst = k * src *)
Register ==
  /\ pc = "idle"
  /\ \E P \in PointSets, k \in ScaleChoices :
       LET dst == [ i \in DOMAIN P |-> Mul(k, P[i]) ]
       IN registration' =
            [ src |-> P, k |-> k, dst |-> dst,
              cross_ratios |-> estimate_scale_point_sets(P, dst),
              procrustes |-> procrustes_registration(P, dst) ]
  /\ pc' = "registered"
  /\ UNCHANGED << minimal_tree, is_valid, concat_vars, graph_vars,
                  robust_vars >>

NextRegister == Register

SpecRegister == Init /\ [][NextRegister]_vars

Shared(a, b) == Range(landmarks[a]) \cap Range(landmarks[b])

Linked(graph, a, b) == << a, b >> \in graph.edges \/ << b, a >> \in graph.edges

SameGraph(g, h) ==
  /\ g.nodes = h.nodes
  /\ \A a, b \in g.nodes :
       /\ Linked(g, a, b) <=> Linked(h, a, b)
       /\ \A e \in g.edges, f \in h.edges :
            {e[1], e[2]} = {f[1], f[2]} => g.n_points[e] = h.n_points[f]

(* C9: the view graph has one node per view; two different views are       *)
(* joined exactly when they share more than 8 distinct landmark ids, the   *)
(* edge records that count, a view that shares too few ids with every      *)
(* other view stays as an isolated node, and the graph is the same         *)
(* whatever the order the views are listed in.                             *)
C9_ViewGraph ==
  pc = "weights" =>
    /\ G.nodes = Range(views)
    /\ \A e \in G.edges : e[1] # e[2] /\ G.n_points[e] = Cardinality(Shared(e[1], e[2]))
    /\ \A a, b \in Range(views) :
         a # b => (Linked(G, a, b) <=> Cardinality(Shared(a, b)) > 8)
    /\ \A a \in Range(views) : ~ Linked(G, a, a)
    /\ \A order \in Perms(Range(views)) :
         SameGraph(build_view_graph(order, landmarks), G)

C9_Witness ==
  /\ pc = "weights"
  /\ \E a, b, c \in G.nodes :
       /\ Linked(G, a, b)
       /\ Len(landmarks[a]) > Cardinality(Range(landmarks[a]))
       /\ \A v \in G.nodes : ~ Linked(G, c, v)
  /\ \E a, b \in G.nodes :
       a # b /\ Cardinality(Shared(a, b)) = 8 /\ ~ Linked(G, a, b)

GraphConnected == Connected(G.nodes, { {e[1], e[2]} : e \in G.edges })

(* C10: when the view graph is not connected, sample_random_view_tree      *)
(* does not return a tree (no tree that leaves out the views it cannot     *)
(* reach), and a tree that leaves out views is found invalid by            *)
(* verify_view_tree.                                                       *)
C10_DisconnectedGraphRejected ==
  /\ (pc \in {"sampled", "verified"} => GraphConnected)
  /\ (pc \in {"sampled", "verified"} => ViewsOf(minimal_tree) = Range(views))
  /\ (pc = "verified" /\ ViewsOf(minimal_tree) # Range(views) => ~ is_valid)

(* C11: for a connected view graph and any random weights,                 *)
(* sample_random_view_tree returns exactly |views| - 1 directed edges,     *)
(* each one an edge of the view graph; the list passes verify_view_tree    *)
(* and covers every view, its first edge starts at view0, the root is      *)
(* never a second element and every other view is the second element of    *)
(* exactly one edge.                                                       *)
C11_SampledTreeRooted ==
  (pc \in {"sampled", "verified"} /\ GraphConnected) =>
    /\ Len(minimal_tree) = Cardinality(Range(views)) - 1
    /\ \A i \in DOMAIN minimal_tree :
         Linked(G, minimal_tree[i][1], minimal_tree[i][2])
    /\ verify_view_tree(minimal_tree)
    /\ pc = "verified" => is_valid
    /\ ViewsOf(minimal_tree) = Range(views)
    /\ minimal_tree[1][1] = view0
    /\ \A i \in DOMAIN minimal_tree : minimal_tree[i][2] # view0
    /\ \A v \in Range(views) \ {view0} :
         Cardinality({ i \in DOMAIN minimal_tree : minimal_tree[i][2] = v }) = 1

C11_Witness ==
  /\ pc = "verified"
  /\ GraphConnected
  /\ is_valid
  /\ Cardinality(G.edges) > Len(minimal_tree)
  /\ view0 # views[1]
  /\ Len(minimal_tree) >= 2
  /\ minimal_tree[2][1] = minimal_tree[1][2]
  /\ << minimal_tree[1][1], minimal_tree[1][2] >> \notin G.edges

KnownMethods == {"cross-ratios", "procrustes"}

-----------------------------------------------------------------------------
(* The values of the poses on a noiseless rig.  The camera centres lie on  *)
(* the first axis, centre[v] being the coordinate of view v; the           *)
(* orientation of a view is one of three rotations that do not commute     *)
(* (the identity and the quarter turns about the third and the first       *)
(* axis).  A rotation is a signed permutation: (R x)[i] is                 *)
(* sign[i] * x[perm[i]].  View v sees the point X at rot[v] (X - centre).  *)
RigRotations ==
  { [ perm |-> << 1, 2, 3 >>, sign |-> << 1, 1, 1 >> ],
    [ perm |-> << 2, 1, 3 >>, sign |-> << -1, 1, 1 >> ],
    [ perm |-> << 1, 3, 2 >>, sign |-> << 1, -1, 1 >> ] }

Apply(r, x) == [ i \in 1 .. 3 |-> RatMul(<< r.sign[i], 1 >>, x[r.perm[i]]) ]
Compose(r, q) ==
  [ perm |-> [ i \in 1 .. 3 |-> q.perm[r.perm[i]] ],
    sign |-> [ i \in 1 .. 3 |-> r.sign[i] * q.sign[r.perm[i]] ] ]
Transpose(r) ==
  [ perm |-> [ j \in 1 .. 3 |-> CHOOSE i \in 1 .. 3 : r.perm[i] = j ],
    sign |-> [ j \in 1 .. 3 |-> r.sign[CHOOSE i \in 1 .. 3 : r.perm[i] = j] ] ]
Identity == [ perm |-> << 1, 2, 3 >>, sign |-> << 1, 1, 1 >> ]

VecZero == << Zero, Zero, Zero >>
VecAdd(x, y) == [ i \in 1 .. 3 |-> RatAdd(x[i], y[i]) ]
VecScale(k, x) == [ i \in 1 .. 3 |-> RatMul(k, x[i]) ]
Axis(c) == << c, Zero, Zero >>

baseline(rig, pair) == RatAbs(RatSub(rig.centre[pair[1]], rig.centre[pair[2]]))

(* the exact relative pose of a pair: x2 = Rd x1 + td, td of unit norm,    *)
(* and the pair's points triangulated in the unit of its baseline          *)
RigRd(rig, pair) == Compose(rig.rot[pair[2]], Transpose(rig.rot[pair[1]]))
Rigtd(rig, pair) ==
  Apply(rig.rot[pair[2]],
        Axis(RatDiv(RatSub(rig.centre[pair[1]], rig.centre[pair[2]]),
                    baseline(rig, pair))))
RigPose(rig, pair) ==
  [ timestamps |-> {1, 2}, size |-> RatDiv(One, baseline(rig, pair)) ]

(* utils.invert_Rt: (R.T, -R.T t) *)
FactorR(rig, f) ==
  IF f.inverse THEN Transpose(RigRd(rig, f.pair)) ELSE RigRd(rig, f.pair)
Factort(rig, f) ==
  IF f.inverse
  THEN VecScale(<< -1, 1 >>,
                Apply(Transpose(RigRd(rig, f.pair)), Rigtd(rig, f.pair)))
  ELSE Rigtd(rig, f.pair)

RECURSIVE EvalR(_, _)
EvalR(rig, word) ==
  IF word = << >> THEN Identity
  ELSE Compose(FactorR(rig, Head(word)), EvalR(rig, Tail(word)))

RECURSIVE Evalt(_, _)
Evalt(rig, t) ==
  IF t = << >> THEN VecZero
  ELSE VecAdd(Apply(EvalR(rig, Head(t).rot),
                    VecScale(Head(t).s, Factort(rig, Head(t).td))),
              Evalt(rig, Tail(t)))

(* the rigs whose exact relative poses are the ones of the run: the root   *)
(* at the origin, every edge of the tree placing its new view at the       *)
(* distance of its baseline on either side of the view it hangs from       *)
RigSides == { -1, 1 }
RigCentre(tree, rp, s1, s2) ==
  LET e1 == tree[1]
      e2 == tree[2]
      c1 == e1[1] :> Zero @@ e1[2] :> RatDiv(<< s1, 1 >>, rp[e1].size)
      placed == IF e2[1] \in DOMAIN c1 THEN e2[1] ELSE e2[2]
      new == IF e2[1] \in DOMAIN c1 THEN e2[2] ELSE e2[1]
  IN new :> RatAdd(c1[placed], RatDiv(<< s2, 1 >>, rp[e2].size)) @@ c1

SpanningTrees ==
  { tree \in [ 1 .. 2 -> RigViews \X RigViews ] :
      ViewsOf(tree) = RigViews /\ verify_view_tree(tree) }

RigsOfRun ==
  IF /\ pc = "done"
     /\ outcome = "returned"
     /\ method \in KnownMethods
     /\ minimal_tree \in SpanningTrees
     /\ \A e \in EdgeSet(minimal_tree) :
          /\ relative_poses[e].timestamps = {1, 2}
          /\ RatLess(Zero, relative_poses[e].size)
  THEN { rig \in
           { [ centre |-> RigCentre(minimal_tree, relative_poses, s[1], s[2]),
               rot |-> r ] :
               s \in RigSides \X RigSides, r \in [ RigViews -> RigRotations ] } :
           \A a, b \in RigViews : a # b => rig.centre[a] # rig.centre[b] }
  ELSE {}

OtherTrees ==
  { tree \in SpanningTrees : tree[1][1] = root /\ tree # minimal_tree }

RunOn(rig, tree) ==
  concatenate_relative_poses(tree,
    [ e \in EdgeSet(tree) |-> RigPose(rig, e) ], method)

(* C18: on a noiseless rig of three views, with exact relative poses and   *)
(* exact scale estimates, two different spanning trees with the same root  *)
(* give every view the same global rotation and translation.               *)
C18_SameRootSamePoses ==
  \A rig \in RigsOfRun : \A tree \in OtherTrees :
    LET other == RunOn(rig, tree)
    IN /\ other.outcome = "returned"
       /\ \A v \in RigViews :
            /\ EvalR(rig, other.poses[v].R) = EvalR(rig, poses[v].R)
            /\ Evalt(rig, other.poses[v].t) = Evalt(rig, poses[v].t)

(* C18 as amended: two different spanning trees with the same root give    *)
(* every view the same global rotation, and the same translation in the    *)
(* unit of the tree's seed edge: the translations of the two runs are      *)
(* equal when the two seed edges have the same baseline (in particular     *)
(* the same seed edge), and otherwise differ by the ratio of the           *)
(* baselines of the seed edges.                                            *)
C18_SameRootSamePosesUpToSeedUnit ==
  \A rig \in RigsOfRun : \A tree \in OtherTrees :
    LET other == RunOn(rig, tree)
    IN /\ other.outcome = "returned"
       /\ \A v \in RigViews :
            /\ EvalR(rig, other.poses[v].R) = EvalR(rig, poses[v].R)
            /\ EvalR(rig, poses[v].R)
                 = Compose(rig.rot[v], Transpose(rig.rot[root]))
            /\ VecScale(baseline(rig, tree[1]), Evalt(rig, other.poses[v].t))
                 = VecScale(baseline(rig, minimal_tree[1]),
                            Evalt(rig, poses[v].t))
            /\ VecScale(baseline(rig, minimal_tree[1]), Evalt(rig, poses[v].t))
                 = Apply(rig.rot[v],
                         Axis(RatSub(rig.centre[root], rig.centre[v])))

C18_Witness ==
  /\ pc = "done"
  /\ Len(minimal_tree) = 2
  /\ minimal_tree[2][2] = root
  /\ \E rig \in RigsOfRun :
       /\ rig.rot[0] # rig.rot[1] /\ rig.rot[1] # rig.rot[2]
       /\ rig.rot[0] # rig.rot[2] /\ rig.rot[root] # Identity
       /\ \E tree \in OtherTrees :
            /\ tree[1] # minimal_tree[1]
            /\ baseline(rig, tree[1]) = baseline(rig, minimal_tree[1])
            /\ tree[2][1] = tree[1][2]
            /\ baseline(rig, tree[2]) = << 2, 1 >>
            /\ Evalt(rig, RunOn(rig, tree).poses[tree[2][2]].t)
                 = Evalt(rig, poses[tree[2][2]].t)
            /\ Evalt(rig, poses[tree[2][2]].t) # VecZero


-----------------------------------------------------------------------------
(* compute_relative_poses_robust *)

(* the views w that make a path view1 - w - view2 of the view graph *)
TwoHop(pair) ==
  { w \in Range(views) \ { pair[1], pair[2] } :
      Linked(G, pair[1], w) /\ Linked(G, w, pair[2]) }

DirectRd(pair) == << Factor(pair, FALSE) >>
Directtd(pair) == Scaled(One, Factor(pair, FALSE))

(* the GlobalPose of view2 from the two-edge tree through w, rooted at view1 *)
PathPose(pair, w) ==
  concatenate_relative_poses(
    << << pair[1], w >>, << w, pair[2] >> >>,
    compute_relative_poses(<< << pair[1], w >>, << w, pair[2] >> >>,
                           landmarks), method).poses[pair[2]]

Min2(a, b) == IF a <= b THEN a ELSE b

(* C14: the estimate of a designated pair (v1, v2) is the mean, with equal *)
(* weights, of exactly 1 + min(max_paths, number of two-hop paths          *)
(* v1 - w - v2 of the view graph) estimates: the direct estimate and, for  *)
(* each chosen path, the GlobalPose of v2 from the concatenation of        *)
(* [(v1,w),(w,v2)]; the chosen w are different views that differ from v1   *)
(* and v2 and are joined to both in the view graph.                        *)
C14_AveragesDirectAndPaths ==
  pc \in {"robust", "robust_done"} =>
    \A pair \in DOMAIN relative_poses :
      LET est == relative_poses[pair]
          n == Min2(max_paths, Cardinality(TwoHop(pair)))
      IN /\ est.Rd.divisor = 1 + n /\ Len(est.Rd.terms) = 1 + n
         /\ est.td.divisor = 1 + n /\ Len(est.td.terms) = 1 + n
         /\ est.Rd.terms[1] = DirectRd(pair)
         /\ est.td.terms[1] = Directtd(pair)
         /\ \E chosen \in [ 1 .. n -> TwoHop(pair) ] :
              /\ \A j, k \in 1 .. n : j # k => chosen[j] # chosen[k]
              /\ \A k \in 1 .. n :
                   /\ est.Rd.terms[k + 1] = PathPose(pair, chosen[k]).R
                   /\ est.td.terms[k + 1] = PathPose(pair, chosen[k]).t

C14_Witness ==
  /\ pc = "robust_done"
  /\ outcome = "returned"
  /\ max_paths = 1
  /\ Len(minimal_tree) = 2
  /\ Cardinality(TwoHop(minimal_tree[1])) = 2
  /\ Cardinality(TwoHop(minimal_tree[2])) = 1
  /\ relative_poses[minimal_tree[1]].Rd.divisor = 2
  /\ relative_poses[minimal_tree[2]].td.divisor = 2
  /\ minimal_tree[1][1] > minimal_tree[1][2]

(* the value of a rotation as a matrix, and the values of the means *)
Mat(r) ==
  [ i \in 1 .. 3 |-> [ j \in 1 .. 3 |->
      IF r.perm[i] = j THEN << r.sign[i], 1 >> ELSE Zero ] ]
MeanR(rig, mean) ==
  [ i \in 1 .. 3 |-> [ j \in 1 .. 3 |->
      RatDiv(Sum([ k \in DOMAIN mean.terms |->
                     Mat(EvalR(rig, mean.terms[k]))[i][j] ]),
             << mean.divisor, 1 >>) ] ]
Meant(rig, mean) ==
  [ i \in 1 .. 3 |->
      RatDiv(Sum([ k \in DOMAIN mean.terms |-> Evalt(rig, mean.terms[k])[i] ]),
             << mean.divisor, 1 >>) ]

(* the scene of the robust estimate, the two views of the pair with any    *)
(* orientation                                                             *)
RobustRigs(pair) ==
  { [ centre |-> [ v \in RobustViews |-> << SceneCentre(v), 1 >> ],
      rot |-> [ v \in RobustViews |-> IF v = pair[1] THEN r[1] ELSE r[2] ] ] :
      r \in RigRotations \X RigRotations }

(* C15: when the view graph has no two-hop path between the views of a     *)
(* designated pair, the estimate of the pair does not fail: the notice is  *)
(* printed, and the rotation and translation returned for the pair are     *)
(* the ones of the direct two-view estimate.                               *)
C15_NoPathFallsBackToDirect ==
  [][(/\ pc = "robust"
      /\ idx <= Len(minimal_tree)
      /\ TwoHop(minimal_tree[idx]) = {})
     => /\ pc' = "robust"
        /\ outcome' = "running"
        /\ idx' = idx + 1
        /\ notices' = Append(notices, minimal_tree[idx])
        /\ minimal_tree[idx] \in DOMAIN relative_poses'
        /\ \A rig \in RobustRigs(minimal_tree[idx]) :
             /\ MeanR(rig, relative_poses'[minimal_tree[idx]].Rd)
                  = Mat(RigRd(rig, minimal_tree[idx]))
             /\ Meant(rig, relative_poses'[minimal_tree[idx]].td)
                  = Rigtd(rig, minimal_tree[idx])]_vars

C15_Witness ==
  /\ pc = "robust_done"
  /\ outcome = "returned"
  /\ max_paths = 2
  /\ Len(minimal_tree) = 2
  /\ notices = << minimal_tree[2] >>
  /\ TwoHop(minimal_tree[2]) = {}
  /\ TwoHop(minimal_tree[1]) # {}
  /\ relative_poses[minimal_tree[2]].Rd.terms = << DirectRd(minimal_tree[2]) >>
  /\ relative_poses[minimal_tree[2]].td.terms = << Directtd(minimal_tree[2]) >>
  /\ relative_poses[minimal_tree[2]].Rd.divisor = 1

Reversed(pair) == << pair[2], pair[1] >>

(* C17: every pair-keyed output keeps the direction of the input edge:     *)
(* compute_relative_poses and compute_relative_poses_robust key each       *)
(* result by (view1, view2) as the pair is listed, and                     *)
(* concatenate_relative_poses records the global points of an edge (a, b)  *)
(* under (a, b), also when the edge is resolved by inversion; no key is a  *)
(* reversed pair.                                                          *)
C17_KeysKeepDirection ==
  /\ [](pc \in {"robust", "robust_done"} =>
          /\ DOMAIN relative_poses
               = { minimal_tree[i] : i \in 1 .. (idx - 1) }
          /\ DOMAIN compute_relative_poses(minimal_tree, landmarks)
               = EdgeSet(minimal_tree))
  /\ [](pc \in {"while", "for", "done"} =>
          /\ minimal_tree[1] \in KeysOf(triang_points)
          /\ \A key \in KeysOf(triang_points) :
               /\ key \in EdgeSet(minimal_tree)
               /\ Reversed(key) \in KeysOf(triang_points)
                    => Reversed(key) \in EdgeSet(minimal_tree))
  /\ [][CanResolve =>
          /\ KeysOf(triang_points') = KeysOf(triang_points) \cup { curr_pair }
          /\ triang_points'[Len(triang_points')].key = curr_pair
               \/ curr_pair \in KeysOf(triang_points)]_vars

C17_Witness ==
  /\ pc = "done"
  /\ outcome = "returned"
  /\ verify_view_tree(minimal_tree)
  /\ Len(minimal_tree) = 2
  /\ minimal_tree[2][2] \in ViewsOfPair(minimal_tree[1])
  /\ minimal_tree[2][1] \notin ViewsOfPair(minimal_tree[1])
  /\ minimal_tree[2][1] \in DOMAIN poses
  /\ KeysOf(triang_points) = { minimal_tree[1], minimal_tree[2] }
  /\ triang_points[2].key = minimal_tree[2]
  /\ Reversed(minimal_tree[2]) \notin KeysOf(triang_points)

(* C12: a resolution step whose estimated scale is below 0.1 prints the    *)
(* warning and goes on: the pose of the newly placed view, with that       *)
(* scale, and the global points of the pair are recorded, and the loop     *)
(* moves to the next pair; a step whose scale is 0.1 or more prints no     *)
(* warning.                                                                *)
C12_LowScaleWarnsAndContinues ==
  [][CanResolve =>
       /\ pc' = "for" /\ outcome' = "running" /\ idx' = idx + 1
       /\ second_view \in DOMAIN poses'
       /\ poses'[second_view].relative_scale = estimate.relative_scale
       /\ curr_pair \in KeysOf(triang_points')
       /\ warnings' = IF Less(estimate.relative_scale, << 1, 10 >>)
                      THEN Append(warnings, curr_pair)
                      ELSE warnings]_vars

C12_Witness ==
  /\ outcome = "returned"
  /\ verify_view_tree(minimal_tree)
  /\ Len(minimal_tree) = 3
  /\ Len(triang_points) = 3
  /\ warnings = << minimal_tree[2] >>
  /\ triang_points[2].key = minimal_tree[2]
  /\ triang_points[3].key = minimal_tree[3]
  /\ \E v \in ViewsOfPair(minimal_tree[2]) :
       /\ poses[v].relative_scale = << 1, 11 >>
       /\ poses[v].relative_scale_std = Zero
  /\ \E v \in ViewsOfPair(minimal_tree[3]) :
       /\ poses[v].relative_scale_std = Zero
       /\ ~ Less(poses[v].relative_scale, << 1, 10 >>)

(* C13: with a method name other than 'cross-ratios' and 'procrustes' the  *)
(* call ends with the configuration error, for every view tree (a single   *)
(* edge, stuck edges), and returns no poses.                               *)
C13_UnknownMethodRaises ==
  (pc = "done" /\ method \notin KnownMethods) => outcome = "method_error"

(* C16: the two maps start with the two views and the one pair of the seed *)
(* edge, and for a tree that verify_view_tree accepts every resolution     *)
(* step adds exactly one new pair and exactly one new view; no entry is    *)
(* removed.                                                                *)
C16_MapsGrowByOne ==
  /\ []((pc = "while" /\ passes = 0 /\ verify_view_tree(minimal_tree)) =>
          /\ DOMAIN poses = ViewsOfPair(minimal_tree[1])
          /\ Cardinality(DOMAIN poses) = 2
          /\ KeysOf(triang_points) = { minimal_tree[1] }
          /\ Len(triang_points) = 1)
  /\ [][(verify_view_tree(minimal_tree) /\ CanResolve) =>
          /\ curr_pair \notin KeysOf(triang_points)
          /\ KeysOf(triang_points') = KeysOf(triang_points) \cup {curr_pair}
          /\ Len(triang_points') = Len(triang_points) + 1
          /\ second_view \notin DOMAIN poses
          /\ DOMAIN poses' = DOMAIN poses \cup {second_view}
          /\ \A v \in DOMAIN poses : poses'[v] = poses[v]]_vars
  /\ [][/\ KeysOf(triang_points) \subseteq KeysOf(triang_points')
        /\ DOMAIN poses \subseteq DOMAIN poses']_vars

(* C19: for a point set with at least two distinct points and its copy     *)
(* scaled by k > 0, both estimators give the scale k, the spread of the    *)
(* cross-ratios is 0, and the rotation and translation of the Procrustes   *)
(* registration are the identity and zero.                                 *)
C19_ScaledCopyRecovered ==
  (pc = "registered" /\ Cardinality(Range(registration.src)) >= 2) =>
    /\ ~ registration.cross_ratios.raised
    /\ registration.cross_ratios.scale = registration.k
    /\ registration.cross_ratios.std = Zero
    /\ ~ registration.procrustes.raised
    /\ registration.procrustes.scale = registration.k
    /\ registration.procrustes.R = One
    /\ registration.procrustes.t = Zero

(* the common points of the pair being visited and of its adjacent pair *)
CommonIds ==
  Entry(triang_points, found.adj_pair).timestamps
    \cap relative_poses[curr_pair].timestamps
DistinctPoints(ids, size) == Cardinality(Range(PointsOf(ids, size)))

(* C20: when a point set given to the scale estimate has fewer than two    *)
(* distinct points (none, one, or several that coincide), the estimate     *)
(* raises with either method: no scale is returned and no pose is          *)
(* recorded.                                                               *)
C20_DegeneratePointsRaise ==
  [][(/\ Visiting
      /\ found.adj_pair # None
      /\ method \in KnownMethods
      /\ \/ DistinctPoints(CommonIds, relative_poses[curr_pair].size) < 2
         \/ DistinctPoints(CommonIds,
                           Entry(triang_points, found.adj_pair).size) < 2)
     => /\ outcome' = "scale_error"
        /\ poses' = poses
        /\ triang_points' = triang_points]_vars

-----------------------------------------------------------------------------
(* concatenate_relative_poses: the resolution step                         *)

(* the composition of lines 277-278 on the pose of an anchor view *)
Composed(anchor, inverse) ==
  [ R |-> Dot(Factor(curr_pair, inverse), poses[anchor].R),
    t |-> DotVec(Factor(curr_pair, inverse), poses[anchor].t)
            \o Scaled(estimate.relative_scale, Factor(curr_pair, inverse)) ]

(* C21: when an edge (a,b) of a validated tree is resolved: if a is        *)
(* already placed the relative pose is used as given, the anchor is a and  *)
(* the new view is b; if b is placed and a is not, the relative pose is    *)
(* inverted, the anchor is b and the new view is a.  In both cases the     *)
(* anchor has a GlobalPose and the new view's pose is composed from it     *)
(* (R_new = Rd*R_anchor, t_new = Rd*t_anchor + s*td).                      *)
C21_DirectionFollowsPlacedView ==
  [][(verify_view_tree(minimal_tree) /\ CanResolve) =>
       /\ curr_pair[1] \in DOMAIN poses =>
            /\ ~ found.inverse
            /\ first_view = curr_pair[1] /\ second_view = curr_pair[2]
       /\ (curr_pair[2] \in DOMAIN poses /\ curr_pair[1] \notin DOMAIN poses) =>
            /\ found.inverse
            /\ first_view = curr_pair[2] /\ second_view = curr_pair[1]
       /\ first_view \in DOMAIN poses
       /\ poses'[second_view].R = Composed(first_view, found.inverse).R
       /\ poses'[second_view].t = Composed(first_view, found.inverse).t]_vars

(* the global points recorded for the pair just resolved *)
Placed == Entry(triang_points', curr_pair)

(* C22: in the direct and in the inverted case alike, the points of the    *)
(* resolved edge are moved into the global frame with the inverse of the   *)
(* GlobalPose of the already placed anchor, scaled by the relative scale.  *)
C22_PointsMovedByAnchor ==
  [][CanResolve =>
       /\ Placed.frame = first_view
       /\ Placed.size = Mul(relative_poses[curr_pair].size,
                            estimate.relative_scale)
       /\ Placed.timestamps = relative_poses[curr_pair].timestamps]_vars

(* C22 as amended: the points of the resolved edge (a,b), scaled by the    *)
(* relative scale, are moved into the global frame with the inverse of     *)
(* the GlobalPose of a, the first view of the edge as listed: the anchor   *)
(* in the direct case, the newly placed view in the inverted case.         *)
C22_PointsMovedByFirstListedView ==
  [][CanResolve =>
       /\ Placed.frame = curr_pair[1]
       /\ Placed.frame = IF found.inverse THEN second_view ELSE first_view
       /\ Placed.frame \in DOMAIN poses'
       /\ Placed.size = Mul(relative_poses[curr_pair].size,
                            estimate.relative_scale)
       /\ Placed.timestamps = relative_poses[curr_pair].timestamps]_vars

(* an edge (a,b) resolved by inversion: b was placed by the seed, a is new *)
C22_Witness ==
  /\ outcome = "returned"
  /\ verify_view_tree(minimal_tree)
  /\ Len(triang_points) = 2
  /\ triang_points[2].key = minimal_tree[2]
  /\ minimal_tree[2][2] \in ViewsOfPair(minimal_tree[1])
  /\ minimal_tree[2][1] \notin ViewsOfPair(minimal_tree[1])
  /\ triang_points[2].frame = minimal_tree[2][1]
  /\ poses[minimal_tree[2][1]].R[1] = Factor(minimal_tree[2], TRUE)

(* the pairs still to be visited in this pass or kept for the next one *)
WorkList ==
  IF pc = "while" THEN Range(pairs)
  ELSE Range(unmatched_pairs)
         \cup { pairs[k] : k \in { j \in DOMAIN pairs : j >= idx } }

Occurrences(seq, x) == Cardinality({ k \in DOMAIN seq : seq[k] = x })

(* C23: visiting an unresolved edge that shares no view with a resolved    *)
(* pair changes no GlobalPose and no global points and keeps the edge for  *)
(* the next pass, once even if it is listed several times; an edge leaves  *)
(* the work-list only resolved or named by the stuck error.                *)
C23_UnmatchedKeptOnce ==
  /\ [][(Visiting /\ found.adj_pair = None) =>
          /\ poses' = poses
          /\ triang_points' = triang_points
          /\ Occurrences(unmatched_pairs', curr_pair) = 1
          /\ pc' = "for" /\ outcome' = "running"]_vars
  /\ [](pc \in {"while", "for", "done"} =>
          \A e \in Range(Tail(minimal_tree)) :
             \/ e \in KeysOf(triang_points)
             \/ e \in WorkList
             \/ outcome = "stuck" /\ e \in Range(error_pairs))
  /\ [][(pc \in {"while", "for"}) =>
          \A e \in WorkList \ KeysOf(triang_points) :
             \/ e \in WorkList'
             \/ e \in KeysOf(triang_points')
             \/ outcome' = "stuck" /\ e \in Range(error_pairs')]_vars

(* a pair listed twice and never adjacent, in its second pass *)
C23_Witness ==
  /\ pc = "for"
  /\ passes = 2
  /\ idx = 2
  /\ Len(minimal_tree) = 3
  /\ minimal_tree[2] = minimal_tree[3]
  /\ pairs = << minimal_tree[2] >>
  /\ unmatched_pairs = pairs
  /\ Len(triang_points) = 1

(* C24: when the points of the edge being resolved share no               *)
(* correspondence id with the points of its adjacent pair, no GlobalPose   *)
(* and no global points are recorded for the edge: the run ends with an    *)
(* error.                                                                  *)
C24_NoCommonIdsRaises ==
  [][(Visiting /\ found.adj_pair # None /\ CommonIds = {}) =>
       /\ pc' = "done"
       /\ outcome' \in {"scale_error", "method_error"}
       /\ poses' = poses
       /\ triang_points' = triang_points]_vars

C24_Witness ==
  /\ pc = "done"
  /\ outcome = "scale_error"
  /\ method = "cross-ratios"
  /\ verify_view_tree(minimal_tree)
  /\ found.adj_pair # None
  /\ CommonIds = {}
  /\ second_view \notin DOMAIN poses
  /\ curr_pair \notin KeysOf(triang_points)

(* C25: the call treats its inputs as immutable: from the call on, until   *)
(* it has returned or failed, the RelativePose map and the view-tree list  *)
(* hold the values they were given, also when a pose is inverted and for   *)
(* the seed edge, whose values are copied into the outputs.                *)
C25_InputsUnchanged ==
  /\ [][pc # "idle" =>
          /\ relative_poses' = relative_poses
          /\ minimal_tree' = minimal_tree]_vars
  /\ [](pc \in {"while", "for", "done"} =>
          /\ DOMAIN relative_poses = EdgeSet(minimal_tree)
          /\ WorkList \subseteq Range(Tail(minimal_tree)))

(* a run that returned after inverting a pose and rescaling points *)
C25_Witness ==
  /\ pc = "done"
  /\ outcome = "returned"
  /\ Len(minimal_tree) = 3
  /\ triang_points[1].key = minimal_tree[1]
  /\ triang_points[1].size = relative_poses[minimal_tree[1]].size
  /\ \E k \in DOMAIN triang_points :
       triang_points[k].size # relative_poses[triang_points[k].key].size
  /\ \E v \in DOMAIN poses :
       /\ poses[v].R # eye
       /\ poses[v].R[1].inverse

(* C26: for an edge list that verify_view_tree accepts, no GlobalPose is   *)
(* overwritten: the view placed by a resolved edge had no GlobalPose       *)
(* before the step, and the poses of the other views are left as they are. *)
C26_PoseNeverOverwritten ==
  [][(verify_view_tree(minimal_tree) /\ CanResolve) =>
       /\ second_view \notin DOMAIN poses
       /\ \A v \in DOMAIN poses : poses'[v] = poses[v]]_vars

(* the undirected graph of the listed edges is connected *)
TreeConnected ==
  Connected(ViewsOf(minimal_tree), UndirectedEdges(minimal_tree))

EstimateFailed == outcome \in {"scale_error", "method_error"}

(* C27: when the undirected graph of the listed edges is connected, the    *)
(* stuck error is never raised, whatever the order and the directions of   *)
(* the edges: every pass resolves at least one edge of its work-list, and  *)
(* unless a scale estimate fails the run returns with every edge resolved. *)
C27_ConnectedNeverStuck ==
  /\ [](TreeConnected => outcome # "stuck")
  /\ []((TreeConnected /\ pc = "for" /\ idx > Len(pairs)) =>
          /\ Len(unmatched_pairs) < Len(pairs)
          /\ \E k \in DOMAIN pairs :
               /\ pairs[k] \notin Range(unmatched_pairs)
               /\ pairs[k] \in KeysOf(triang_points))
  /\ []((TreeConnected /\ pc = "done" /\ ~ EstimateFailed) =>
          /\ outcome = "returned"
          /\ EdgeSet(minimal_tree) = KeysOf(triang_points)
          /\ ViewsOf(minimal_tree) = DOMAIN poses)
  /\ ((TreeConnected /\ pc = "while") ~> (pc = "done"))

(* a connected list that needed two passes: its last edge was resolved     *)
(* before the one listed second, which is a pair of two new views          *)
C27_Witness ==
  /\ pc = "done"
  /\ outcome = "returned"
  /\ TreeConnected
  /\ Len(minimal_tree) = 3
  /\ passes = 2
  /\ Len(triang_points) = 3
  /\ triang_points[2].key = minimal_tree[3]
  /\ triang_points[3].key = minimal_tree[2]
  /\ ViewsOfPair(minimal_tree[2]) \cap ViewsOfPair(minimal_tree[1]) = {}

(* C28: in every state of the call, both views of every pair recorded in   *)
(* the global points map have a GlobalPose, and the views that have a      *)
(* GlobalPose are the views of the recorded pairs.                         *)
C28_PosesCoverRecordedPairs ==
  pc \in {"while", "for", "done"} =>
    /\ \A key \in KeysOf(triang_points) : ViewsOfPair(key) \subseteq DOMAIN poses
    /\ DOMAIN poses = UNION { ViewsOfPair(key) : key \in KeysOf(triang_points) }

(* three pairs recorded, one of them by inversion, four views placed *)
C28_Witness ==
  /\ pc = "for"
  /\ Len(triang_points) = 3
  /\ Cardinality(DOMAIN poses) = 4
  /\ \E k \in DOMAIN triang_points :
       triang_points[k].frame \notin ViewsOfPair(minimal_tree[1])
  /\ DOMAIN poses = UNION { ViewsOfPair(key) : key \in KeysOf(triang_points) }

(* the recorded pairs, by position, that hold b and not a, or hold a *)
HoldingOnlySecond(pair, tp) ==
  { k \in DOMAIN tp : /\ pair[2] \in ViewsOfPair(tp[k].key)
                      /\ pair[1] \notin ViewsOfPair(tp[k].key) }
HoldingFirst(pair, tp) ==
  { k \in DOMAIN tp : pair[1] \in ViewsOfPair(tp[k].key) }
Least(S) == CHOOSE k \in S : \A j \in S : k <= j
Greatest(S) == CHOOSE k \in S : \A j \in S : j <= k

(* the pair the claim says the scale is estimated against *)
ChosenPair(pair, tp) ==
  IF HoldingOnlySecond(pair, tp) # {}
  THEN [ adj_pair |-> tp[Least(HoldingOnlySecond(pair, tp))].key,
         inverse |-> TRUE ]
  ELSE IF HoldingFirst(pair, tp) # {}
  THEN [ adj_pair |-> tp[Greatest(HoldingFirst(pair, tp))].key,
         inverse |-> FALSE ]
  ELSE [ adj_pair |-> None, inverse |-> FALSE ]

(* another recorded pair shares a view and two ids or more with the edge *)
OtherPairWouldDo ==
  \E k \in DOMAIN triang_points :
     /\ triang_points[k].key # found.adj_pair
     /\ SharesView(triang_points[k].key, curr_pair)
     /\ Cardinality(triang_points[k].timestamps
                      \cap relative_poses[curr_pair].timestamps) >= 2

(* C29: the scale of an edge (a,b) is estimated against one resolved pair: *)
(* the first one, in insertion order, that holds b and not a (inverted     *)
(* case), or else the last one that holds a (direct case).  No other pair  *)
(* is tried, even when the chosen one shares no id with the edge and       *)
(* another adjacent pair does.                                             *)
C29_OneAdjacentPairByScanOrder ==
  /\ [](Visiting => found = ChosenPair(curr_pair, triang_points))
  /\ [][(Visiting /\ ChosenPair(curr_pair, triang_points).adj_pair # None) =>
          LET chosen == Entry(triang_points,
                              ChosenPair(curr_pair, triang_points).adj_pair)
              against == ScaleStep(method, relative_poses[curr_pair], chosen)
          IN IF against.error # ""
             THEN /\ pc' = "done" /\ outcome' = against.error
                  /\ poses' = poses /\ triang_points' = triang_points
             ELSE /\ pc' = "for"
                  /\ poses'[second_view].relative_scale
                       = against.relative_scale
                  /\ poses'[second_view].relative_scale_std
                       = against.relative_scale_std]_vars

(* the run ended on the chosen pair, which shares no id with the edge,     *)
(* while another adjacent pair shares two                                  *)
C29_Witness ==
  /\ pc = "done"
  /\ outcome = "scale_error"
  /\ method \in KnownMethods
  /\ verify_view_tree(minimal_tree)
  /\ ~ found.inverse
  /\ found.adj_pair = triang_points[Len(triang_points)].key
  /\ CommonIds = {}
  /\ OtherPairWouldDo

(* the run was given the tree of sample_random_view_tree *)
Sampled == views # << >> /\ pc \in {"while", "for", "done"}

====
